---- MODULE Spec2Model ----
(***************************************************************************)
(* Remote-resource synchronisation of the nikke bot: the UpdateManager     *)
(* tasks (src/src/utils/updateManager.ts), the UnifiedDownloader           *)
(* (src/src/utils/unifiedDownloader.ts) and the JsonManager record reader  *)
(* (src/src/utils/jsonManager.ts).                                         *)
(*                                                                         *)
(* Every run of a task is one action; what the network and the file system *)
(* answer during the run (HTTP status of each request, order of a listing, *)
(* which downloads fail) are the action's inputs, drawn with \E.           *)
(***************************************************************************)
EXTENDS Integers, Sequences, FiniteSets, TLC

\* ------------------------------------------------------------ bounds

\* File names of the mirrored directory are 1..MaxName, ordered as the
\* strings they stand for ("a.png" < "b.png" < "comic_c.png" < "d.txt" < ...).
MaxName == 2

\* At most MaxInflight runs of one task are in flight at a time, and at most
\* MaxLeaked timers of one task are live without being held by the registry.
MaxInflight == 2

MaxLeaked == 1

Names == 1..MaxName

\* What a local file holds: "new", the bytes the remote entry of its name
\* serves, or "old", other bytes (of another size) written before the first run.
Contents == {"old", "new"}

Tasks == {"sprite", "characters-tw", "url-monitor"}

\* The URLs a watched file can resolve to, and the sources of the URL
\* fetcher: two files on raw.githubusercontent.com and one page elsewhere.
GithubRawUrls == {"https://raw.githubusercontent.com/o/r/main/a.json",
                  "https://raw.githubusercontent.com/o/r/main/b.json"}

WebUrls == {"https://example.org/list.json"}

Urls == GithubRawUrls \cup WebUrls

\* Commit SHAs the commit-history API can answer with.
Shas == {"abc123", "def456"}

\* The language editions of the character data (characters-tw.json,
\* characters-en.json).
Langs == {"tw", "en"}

\* Bodies a download can answer with: JSON in compact form, the same JSON as
\* JSON.stringify(x, null, 2) writes it, and text that is not JSON.
Bodies == {"compact", "pretty", "notJson"}

\* ------------------------------------------------------------ state

VARIABLES
    engine,          \* the sync engine the process runs: "UpdateManager" | "AutoUpdater"
    remote,          \* the GitHub directory: name -> "none" | "dir" | "file"
    local,           \* config.localPath: name -> "none" | content of the file
    udLastFileList,  \* UnifiedDownloader.lastFileList
    udChecked,       \* UnifiedDownloader.lastCheckTime > 0
    status,          \* UpdateManager.statuses[name].status
    commitFile,      \* the file at config.commitStorageFile of "characters-tw"
    jsonFile,        \* the files characters-<lang>.json
    jsonSources,     \* config.jsonSources of "characters-<lang>"
    umLastKnownUrls, \* UpdateManager.lastKnownUrls
    udCommitHashes,  \* UnifiedDownloader.lastCommitHashes
    jmFile,          \* the file of the JsonManager (tw_urls.json)
    preRestart,      \* the in-memory checkpoints a restart discarded, until the next run
    info,            \* UpdateManager.statuses[name]: isRunning, lastCheck, nextCheck, lastUpdate, error
    configs,         \* UpdateManager.configs[name]: enabled, and whether its fields are complete
    intervals,       \* UpdateManager.intervals has name
    leaked,          \* live setInterval timers of name that UpdateManager.intervals no longer holds
    running,         \* runs of performUpdate(name) in flight, forceUpdateAll's aside
    fua,             \* the forceUpdateAll call in progress
    stopped,         \* stop() was called, and no start() or setTaskEnabled(name, true) since
    disabledByCall,  \* tasks setTaskEnabled(name, false) was called on, and not enabled since
    filterRules,     \* the filter rules of the descriptor registered for "sprite"
    downloading,     \* the run of "sprite" that is between its listing and its last file
    qp,              \* the call of optimizationUtils.queueProcessor under way
    twType,          \* config.type of the descriptor registered as "characters-tw"
    obs              \* what the last operation did and answered

mirrorVars == <<remote, local, udLastFileList, udChecked>>

commitVars ==
    <<commitFile, jsonFile, jsonSources, umLastKnownUrls, udCommitHashes, jmFile, preRestart>>

lifeVars == <<configs, intervals, leaked, running, fua, stopped, disabledByCall>>

filterVars == <<filterRules, downloading>>

vars == <<engine, remote, local, udLastFileList, udChecked, status, commitFile, jsonFile,
          jsonSources, umLastKnownUrls, udCommitHashes, jmFile, preRestart, info, configs,
          intervals, leaked, running, fua, stopped, disabledByCall, filterRules, downloading,
          qp, twType, obs>>

\* ------------------------------------------------------------ helpers

\* The sequences that enumerate the set S once each (an order the API, or
\* readdir, may answer in).
Perms(S) ==
    {s \in [1..Cardinality(S) -> S] : \A x \in S : \E i \in 1..Cardinality(S) : s[i] = x}

Range(s) == {s[i] : i \in 1..Len(s)}

\* Array.prototype.sort() on names: ascending string order.
SortNames(s) == SortSeq(s, LAMBDA a, b : a < b)

\* ------------------------------------------------------------ filters

\* path.extname(fileName).toLowerCase() is in config.fileExtensions.
\* Every fourth name stands for a name such as "d.txt".
isValidFile(fileName) == fileName % 4 # 0

\* fileName contains one of config.excludePatterns ("4koma", "comic", ...).
\* Names 3, 7, ... stand for names such as "comic_c.png".
shouldExcludeFile(fileName) == fileName % 4 = 3

\* The three .filter() calls applied to the body of a listing response.
FilterListing(files) ==
    SelectSeq(files, LAMBDA f : /\ f.type = "file"
                                /\ isValidFile(f.name)
                                /\ ~shouldExcludeFile(f.name))

MapNames(files) == [i \in 1..Len(files) |-> files[i].name]

\* The body the listing API answers with when it answers 200: the entries of
\* the directory in the order `order`.
ListingBody(order) ==
    [i \in 1..Len(order) |->
        [name |-> order[i],
         type |-> remote[order[i]],
         content |-> "new"]]

RemotePresent == {n \in Names : remote[n] # "none"}

\* A listing request's answer: HTTP status, and the body when it is 200.
ListingResponses ==
    {[code |-> 200, body |-> ListingBody(o)] : o \in Perms(RemotePresent)}
        \cup {[code |-> 403, body |-> <<>>], [code |-> 500, body |-> <<>>]}

\* A set of names as a sequence, in some order (fs.readdir's).
SetToSeq(S) == CHOOSE s \in Perms(S) : TRUE

\* ------------------------------------------------------------ UpdateManager: the "github" task

\* fs.readdir(localPath) without dotfiles (no catalogue name starts with a
\* dot) and without names whose extension is not allowed.
getLocalFileList(loc) == SetToSeq({n \in Names : loc[n] # "none" /\ isValidFile(n)})

\* TRUE: the lists differ.
compareFileLists(localFiles, remoteFiles) ==
    IF Len(localFiles) = 0 THEN TRUE
    ELSE IF Len(localFiles) # Len(remoteFiles) THEN TRUE
    ELSE \E i \in 1..Len(localFiles) : localFiles[i] # remoteFiles[i]

\* [threw, value]: 403 answers "no updates", any other non-2xx status throws.
checkGitHubUpdates(loc, resp) ==
    IF resp.code = 403 THEN [threw |-> FALSE, value |-> FALSE]
    ELSE IF resp.code # 200 THEN [threw |-> TRUE, value |-> FALSE]
    ELSE LET remoteFiles == SortNames(MapNames(FilterListing(resp.body)))
             localFileNames == SortNames(getLocalFileList(loc))
         IN  [threw |-> FALSE, value |-> compareFileLists(localFileNames, remoteFiles)]

\* The loop without the fs.access test: every listed file is fetched and
\* written, over the file that is there.
DownloadLoopOverwriting(loc, files, failed) ==
    LET listed == {i \in 1..Len(files) : TRUE}
        attempted == {files[i].name : i \in listed}
        written == attempted \ failed
        got(n) == (CHOOSE i \in listed : files[i].name = n)
    IN  [local |-> [n \in Names |-> IF n \in written THEN files[got(n)].content ELSE loc[n]],
         attempted |-> attempted,
         skipped |-> {},
         written |-> written,
         failCount |-> Cardinality(attempted \cap failed)]

\* The loop of a mirror that also removes: a local file the listing does not
\* name is deleted.
DownloadLoopPruning(loc, files, failed) ==
    LET listed == {i \in 1..Len(files) : TRUE}
        names == {files[i].name : i \in listed}
        attempted == {n \in names : loc[n] = "none"}
        written == attempted \ failed
        got(n) == (CHOOSE i \in listed : files[i].name = n)
    IN  [local |-> [n \in Names |-> IF n \in written THEN files[got(n)].content
                                    ELSE IF n \in names THEN loc[n] ELSE "none"],
         attempted |-> attempted,
         skipped |-> names \ attempted,
         written |-> written,
         failCount |-> Cardinality(attempted \cap failed)]

\* The loop over the listed files: a file that exists is skipped, the others
\* are fetched and written; a failed fetch or write (the names in `failed`)
\* is logged and the loop goes on.
DownloadLoop(loc, files, failed) ==
    LET listed == {i \in 1..Len(files) : TRUE}
        attempted == {files[i].name : i \in {j \in listed : loc[files[j].name] = "none"}}
        written == attempted \ failed
        got(n) == (CHOOSE i \in listed : files[i].name = n)
    IN  [local |-> [n \in Names |-> IF n \in written THEN files[got(n)].content ELSE loc[n]],
         attempted |-> attempted,
         skipped |-> {files[i].name : i \in listed} \ attempted,
         written |-> written,
         failCount |-> Cardinality(attempted \cap failed)]

\* response.ok is not looked at: the body of an error answer is no array, and
\* files.filter throws.
downloadGitHubFiles(loc, resp, failed) ==
    IF resp.code # 200
    THEN [threw |-> TRUE, local |-> loc, attempted |-> {}, skipped |-> {}, written |-> {}]
    ELSE LET r == DownloadLoop(loc, FilterListing(resp.body), failed)
         IN  [threw |-> FALSE, local |-> r.local, attempted |-> r.attempted,
              skipped |-> r.skipped, written |-> r.written]

\* [value, local, changed, attempted, skipped, written]; the try/catch
\* turns every throw into value FALSE.
updateGitHubFiles(loc, resp1, resp2, failed) ==
    LET chk == checkGitHubUpdates(loc, resp1)
        dl == downloadGitHubFiles(loc, resp2, failed)
    IN  IF chk.threw
        THEN [value |-> FALSE, local |-> loc, changed |-> FALSE,
              attempted |-> {}, skipped |-> {}, written |-> {}]
        ELSE IF ~chk.value
        THEN [value |-> TRUE, local |-> loc, changed |-> FALSE,
              attempted |-> {}, skipped |-> {}, written |-> {}]
        ELSE [value |-> ~dl.threw, local |-> dl.local, changed |-> TRUE,
              attempted |-> dl.attempted, skipped |-> dl.skipped, written |-> dl.written]

\* ------------------------------------------------------------ UnifiedDownloader: the directory mirror

\* [threw, files]: 403 answers the empty list, any other non-2xx status throws.
getGitHubFileList(resp) ==
    IF resp.code = 403 THEN [threw |-> FALSE, files |-> <<>>]
    ELSE IF resp.code # 200 THEN [threw |-> TRUE, files |-> <<>>]
    ELSE [threw |-> FALSE, files |-> FilterListing(resp.body)]

\* TRUE: the listing differs from lastFileList.
hasFileChanges(currentFiles, lastFileList) ==
    LET currentFileNames == SortNames(MapNames(currentFiles))
    IN  IF Len(lastFileList) = 0 THEN TRUE
        ELSE IF Len(currentFileNames) # Len(lastFileList) THEN TRUE
        ELSE \E i \in 1..Len(currentFileNames) : currentFileNames[i] # lastFileList[i]

\* [threw, value, lastFileList, checked]
checkForUpdates(lastFileList, checked, resp) ==
    LET cur == getGitHubFileList(resp)
    IN  IF cur.threw
        THEN [threw |-> TRUE, value |-> FALSE, lastFileList |-> lastFileList, checked |-> checked]
        ELSE IF hasFileChanges(cur.files, lastFileList)
        THEN [threw |-> FALSE, value |-> TRUE, lastFileList |-> MapNames(cur.files), checked |-> TRUE]
        ELSE [threw |-> FALSE, value |-> FALSE, lastFileList |-> lastFileList, checked |-> checked]

\* [threw, value, local, attempted, written]: downloadFile on every listed
\* file; value is failCount === 0.
downloadAllFiles(loc, resp, failed) ==
    LET cur == getGitHubFileList(resp)
        r == DownloadLoop(loc, cur.files, failed)
    IN  IF cur.threw
        THEN [threw |-> TRUE, value |-> FALSE, local |-> loc,
              attempted |-> {}, skipped |-> {}, written |-> {}]
        ELSE [threw |-> FALSE, value |-> r.failCount = 0, local |-> r.local,
              attempted |-> r.attempted, skipped |-> r.skipped, written |-> r.written]

\* ------------------------------------------------------------ checkpoint records

\* null / undefined.
Null == [null |-> TRUE]

\* A commit SHA (40 hex digits) and a URL hash (at most 8) never coincide.
Sha(s) == [sha |-> s]

\* A file that holds no readable record: it is not there, it cannot be read
\* (fs.readFile fails with another error than ENOENT), or JSON.parse fails.
Damaged == {"missing", "unreadable", "corrupt"}

NoFile == [state |-> "missing", commitHash |-> Null, url |-> ""]

\* The character codes a URL is hashed over (the model's URLs are short, so
\* that the hash stays within 32 bits).
UrlChars(url) ==
    CASE url = "https://raw.githubusercontent.com/o/r/main/a.json" -> <<114, 97>>
      [] url = "https://raw.githubusercontent.com/o/r/main/b.json" -> <<114, 98>>
      [] OTHER -> <<101, 108>>

RECURSIVE HashChars(_, _)
\* hash = (hash << 5) - hash + char; hash = hash & hash
HashChars(hash, chars) ==
    IF chars = <<>> THEN hash
    ELSE HashChars(hash * 32 - hash + Head(chars), Tail(chars))

Abs(x) == IF x < 0 THEN -x ELSE x

\* Math.abs(hash).toString(16): the number stands for its hex digits.
generateUrlHash(url) == [hex |-> Abs(HashChars(0, UrlChars(url)))]

\* What the commit-history API answers to ?path=...&per_page=1: a commit
\* list with a first SHA, an empty list, a non-2xx status, or no answer at all
\* (fetch or response.json() throws).
LookupAnswers ==
    {[kind |-> "sha", sha |-> x] : x \in Shas}
        \cup {[kind |-> "empty", sha |-> ""], [kind |-> "http", sha |-> ""],
              [kind |-> "neterr", sha |-> ""]}

\* UpdateManager.loadCommitInfo: the record, or null.
loadCommitInfo(file) ==
    IF file.state \in Damaged THEN Null
    ELSE [commitHash |-> file.commitHash, url |-> file.url]

\* UpdateManager.getCommitHashFromUrl: the first SHA of the commit list; null
\* when the request throws; the hash of the URL for a URL that is not on
\* raw.githubusercontent.com, for a non-2xx answer and for an empty list.
getCommitHashFromUrl(url, look) ==
    IF url \in GithubRawUrls /\ look.kind = "sha" THEN Sha(look.sha)
    ELSE IF url \in GithubRawUrls /\ look.kind = "neterr" THEN Null
    ELSE generateUrlHash(url)

\* Variant: the checkpoint is not consulted, every run downloads.
checkCommitAndUpdateAlways(file, url, look) == TRUE

\* TRUE: download.
checkCommitAndUpdate(file, url, look) ==
    LET lastCommitInfo == loadCommitInfo(file)
        currentCommitHash == getCommitHashFromUrl(url, look)
    IN  IF currentCommitHash = Null THEN TRUE
        ELSE IF lastCommitInfo = Null \/ lastCommitInfo.commitHash # currentCommitHash THEN TRUE
        ELSE FALSE

\* The commit file after updateCommitInfo: the hash is looked up again; a
\* failed write is logged and leaves the file as it was.
updateCommitInfo(file, url, look, writeOk) ==
    LET commitHash == getCommitHashFromUrl(url, look)
    IN  IF commitHash = Null \/ ~writeOk THEN file
        ELSE [state |-> "ok", commitHash |-> commitHash, url |-> url]

\* JSON.stringify(JSON.parse(content), null, 2)
Reserialize(content) == IF content = "compact" THEN "pretty" ELSE content

\* What a download answers: a status, and the body when it is 200.
DownloadAnswers == {[code |-> 200, body |-> b] : b \in Bodies} \cup {[code |-> 500, body |-> ""]}

\* What fetching the watched file yields: a status and, when it is 200, the
\* URL the pattern captures in its text ("" when the pattern does not match).
WatchedAnswers == {[code |-> 200, url |-> u] : u \in Urls \cup {""}} \cup {[code |-> 500, url |-> ""]}

\* Variant: a watched file the pattern does not match is taken as "nothing
\* to do" (the run answers true).
updateDynamicJsonDataLenient(file, json, in) ==
    LET stop == [value |-> FALSE, commitFile |-> file, json |-> json, resolved |-> FALSE,
                 changed |-> FALSE, fetched |-> FALSE, stored |-> FALSE]
        extractedUrl == in.watched.url
        shouldUpdate == checkCommitAndUpdate(file, extractedUrl, in.look1)
    IN  IF in.watched.code # 200 THEN stop
        ELSE IF extractedUrl = "" THEN [stop EXCEPT !.value = TRUE]
        ELSE IF ~shouldUpdate THEN [stop EXCEPT !.value = TRUE, !.resolved = TRUE]
        ELSE IF in.dl.code # 200 \/ in.dl.body = "notJson" \/ ~in.writeOk
        THEN [stop EXCEPT !.resolved = TRUE, !.changed = TRUE, !.fetched = TRUE]
        ELSE [value |-> TRUE,
              commitFile |-> updateCommitInfo(file, extractedUrl, in.look2, in.ckWriteOk),
              json |-> Reserialize(in.dl.body),
              resolved |-> TRUE, changed |-> TRUE, fetched |-> TRUE, stored |-> TRUE]

\* UpdateManager.updateDynamicJsonData for "characters-tw" (commit tracking
\* on). in = [watched, look1, dl, writeOk, look2, ckWriteOk]: the answers to
\* the requests and whether the two writes succeed.
\* [value, commitFile, json, resolved, changed, fetched, stored]
updateDynamicJsonData(file, json, in) ==
    LET stop == [value |-> FALSE, commitFile |-> file, json |-> json, resolved |-> FALSE,
                 changed |-> FALSE, fetched |-> FALSE, stored |-> FALSE]
        extractedUrl == in.watched.url
        shouldUpdate == checkCommitAndUpdate(file, extractedUrl, in.look1)
    IN  IF in.watched.code # 200 \/ extractedUrl = "" THEN stop
        ELSE IF ~shouldUpdate THEN [stop EXCEPT !.value = TRUE, !.resolved = TRUE]
        ELSE IF in.dl.code # 200 \/ in.dl.body = "notJson" \/ ~in.writeOk
        THEN [stop EXCEPT !.resolved = TRUE, !.changed = TRUE, !.fetched = TRUE]
        ELSE [value |-> TRUE,
              commitFile |-> updateCommitInfo(file, extractedUrl, in.look2, in.ckWriteOk),
              json |-> Reserialize(in.dl.body),
              resolved |-> TRUE, changed |-> TRUE, fetched |-> TRUE, stored |-> TRUE]

\* ------------------------------------------------------------ UpdateManager: the "url-monitor" task

\* TRUE: the URLs differ.
compareUrls(oldUrls, newUrls) ==
    oldUrls.twUrl # newUrls.twUrl \/ oldUrls.enUrl # newUrls.enUrl

UrlPairs == [twUrl : GithubRawUrls, enUrl : GithubRawUrls]

\* What extractUrlsFromNotebook yields: a status and, when it is 200, the pair
\* of URLs the two patterns capture (null when one does not match).
ExtractAnswers ==
    {[code |-> 200, urls |-> u] : u \in UrlPairs \cup {Null}} \cup {[code |-> 500, urls |-> Null]}

\* The task downloadNewDataFromUrls looks up for each URL of the pair.
TaskOf == [l \in Langs |-> IF l = "tw" THEN "characters-tw" ELSE "characters-en"]

\* UpdateManager.updateJsonData with one source: the file after it, and
\* whether the source failed (non-2xx answer, JSON.parse or the write throws).
updateJsonData(file, dl, writeOk) ==
    IF dl.code # 200 \/ dl.body = "notJson" \/ ~writeOk
    THEN [file |-> file, failCount |-> 1]
    ELSE [file |-> Reserialize(dl.body), failCount |-> 0]

\* UpdateManager.updateUrlMonitor. in = [extract, dl, writeOk, complete]: dl
\* and writeOk per language; complete tells, per language, whether the
\* descriptor of its task has jsonOutputFile (updateJsonData throws when it
\* has not, after downloadNewDataFromUrls has assigned jsonSources).
\* [value, lastKnownUrls, json, sources, changed, fetched, failCount]
updateUrlMonitor(lastKnownUrls, json, sources, in) ==
    LET currentUrls == in.extract.urls
        stay == [value |-> FALSE, lastKnownUrls |-> lastKnownUrls, json |-> json,
                 sources |-> sources, changed |-> FALSE, fetched |-> FALSE, failCount |-> 0]
        tw == updateJsonData(json["tw"], in.dl["tw"], in.writeOk["tw"])
        en == updateJsonData(json["en"], in.dl["en"], in.writeOk["en"])
    IN  IF in.extract.code # 200 \/ currentUrls = Null THEN stay
        ELSE IF lastKnownUrls = Null
        THEN [stay EXCEPT !.value = TRUE, !.lastKnownUrls = currentUrls]
        ELSE IF ~compareUrls(lastKnownUrls, currentUrls) THEN [stay EXCEPT !.value = TRUE]
        ELSE IF ~in.complete["tw"]
        THEN [stay EXCEPT !.changed = TRUE,
                          !.sources = [sources EXCEPT !["tw"] = currentUrls.twUrl]]
        ELSE IF ~in.complete["en"]
        THEN [stay EXCEPT !.changed = TRUE, !.fetched = TRUE,
                          !.json = [json EXCEPT !["tw"] = tw.file],
                          !.sources = [l \in Langs |-> IF l = "tw" THEN currentUrls.twUrl
                                                       ELSE currentUrls.enUrl],
                          !.failCount = tw.failCount]
        ELSE [value |-> TRUE,
              lastKnownUrls |-> currentUrls,
              json |-> [l \in Langs |-> IF l = "tw" THEN tw.file ELSE en.file],
              sources |-> [l \in Langs |-> IF l = "tw" THEN currentUrls.twUrl
                                           ELSE currentUrls.enUrl],
              changed |-> TRUE, fetched |-> TRUE, failCount |-> tw.failCount + en.failCount]

\* ------------------------------------------------------------ UnifiedDownloader: the URL fetcher

\* urlConfig.sources
UdSources ==
    <<"https://raw.githubusercontent.com/o/r/main/a.json", "https://example.org/list.json">>

\* url.includes("raw.githubusercontent.com") || (github.com && /blob/)
isGitHubRawUrl(url) == url \in GithubRawUrls

\* The SHA, or null for every failure.
getLatestCommitHash(look) == IF look.kind = "sha" THEN Sha(look.sha) ELSE Null

\* [value, hashes]: the new hash is stored here, before anything is fetched.
checkGitHubCommitUpdate(hashes, githubRawUrl, look) ==
    LET latestCommitHash == getLatestCommitHash(look)
    IN  IF latestCommitHash = Null THEN [value |-> TRUE, hashes |-> hashes]
        ELSE IF hashes[githubRawUrl] = latestCommitHash THEN [value |-> FALSE, hashes |-> hashes]
        ELSE [value |-> TRUE, hashes |-> [hashes EXCEPT ![githubRawUrl] = latestCommitHash]]

RECURSIVE FetchLoop(_, _, _)
\* The loop of fetchFromAllSources from source i on. in = [look, fetchOk],
\* per source. acc = [hashes, checked, changed, attempted, fetched]: the
\* sources whose commit was checked, was found changed, that were fetched,
\* and whose fetch succeeded.
FetchLoop(i, acc, in) ==
    IF i > Len(UdSources) THEN acc
    ELSE LET source == UdSources[i]
             chk == IF isGitHubRawUrl(source)
                    THEN checkGitHubCommitUpdate(acc.hashes, source, in.look[source])
                    ELSE [value |-> TRUE, hashes |-> acc.hashes]
             seen == [acc EXCEPT !.hashes = chk.hashes,
                                 !.checked = IF isGitHubRawUrl(source) THEN @ \cup {source} ELSE @,
                                 !.changed = IF isGitHubRawUrl(source) /\ chk.value
                                             THEN @ \cup {source} ELSE @]
         IN  IF ~chk.value THEN FetchLoop(i + 1, seen, in)
             ELSE FetchLoop(i + 1,
                            [seen EXCEPT !.attempted = @ \cup {source},
                                         !.fetched = IF in.fetchOk[source] THEN @ \cup {source} ELSE @],
                            in)

\* UnifiedDownloader.fetchFromAllSources (enableCommitCheck is on).
fetchFromAllSources(hashes, in) ==
    FetchLoop(1, [hashes |-> hashes, checked |-> {}, changed |-> {}, attempted |-> {},
                  fetched |-> {}], in)

\* UnifiedDownloader.loadCommitHashes: the map of the file, or the map as it
\* is when the file cannot be read or parsed. No code calls it, nor
\* saveCommitHashes.
loadCommitHashes(hashes, fileState, fileHashes) ==
    IF fileState \in Damaged THEN hashes ELSE fileHashes

\* ------------------------------------------------------------ JsonManager

\* [threw, value]: null when the file is not there (ENOENT); every other
\* failure, JSON.parse's included, is thrown again.
readExistingData(file) ==
    IF file.state = "missing" THEN [threw |-> FALSE, value |-> Null]
    ELSE IF file.state \in Damaged THEN [threw |-> TRUE, value |-> Null]
    ELSE [threw |-> FALSE, value |-> [urls |-> file.urls]]

\* TRUE: there are new URLs. URLs are compared as sorted lists.
hasNewUpdates(existingData, newUrls) ==
    IF existingData = Null THEN TRUE
    ELSE existingData.urls # newUrls

\* ------------------------------------------------------------ UpdateManager: statuses and timers

\* A Date field of a status: null, or a date.
Dates == {"null", "date"}

\* The fields addConfig gives a status, beside status: "disabled".
NoInfo ==
    [isRunning |-> FALSE, lastCheck |-> "null", nextCheck |-> "null", lastUpdate |-> "null",
     error |-> "none"]

\* A default configuration: enabled, every field of its type there.
DefaultConfig == [enabled |-> TRUE, complete |-> TRUE, added |-> FALSE]

\* No call of queueProcessor made yet. n: the items of the call; c: its
\* concurrency; queue: the items not started; running: the items whose
\* processFn is in flight; first: the items the workers started, not settled
\* yet; results: the array; resolved: the call has returned; returned: the
\* length of the array when it did.
NoQueue ==
    [called |-> FALSE, n |-> 0, c |-> 0, queue |-> <<>>, running |-> {}, first |-> {},
     results |-> <<>>, resolved |-> FALSE, returned |-> 0]

\* No run of "sprite" between its listing and its last file.
NoDownloading == [active |-> FALSE, queue |-> <<>>, detached |-> FALSE]

\* No forceUpdateAll call in progress.
NoFua == [active |-> FALSE, current |-> "", results |-> {}, succeeded |-> {}]

\* performUpdate up to its first await: lastCheck = new Date() (and status
\* "pending").
BeginUpdateRearming(inf) == [inf EXCEPT !.lastCheck = "date", !.nextCheck = "date"]

BeginUpdate(inf) == [inf EXCEPT !.lastCheck = "date"]

\* performUpdate from the answer of the task on: "success" (the task
\* returned true), "failure" (it returned false), "threw" (it threw).
EndUpdate(inf, outcome) ==
    IF outcome = "success" THEN [inf EXCEPT !.lastUpdate = "date"]
    ELSE IF outcome = "threw" THEN [inf EXCEPT !.error = "message"]
    ELSE inf

\* What stop() and setTaskEnabled(name, false) write into the status of a
\* task whose timer they cancel.
ClearTimerResetting(inf) == NoInfo

ClearTimer(inf) == [inf EXCEPT !.isRunning = FALSE, !.nextCheck = "null"]

StatusAfter(outcome) == IF outcome = "success" THEN "success" ELSE "error"

\* The registry after construction over the tasks `registry`: nothing armed,
\* nothing in flight.
LifeInit(registry) ==
    /\ info = [t \in registry |-> NoInfo]
    /\ configs = [t \in registry |-> DefaultConfig]
    /\ intervals = [t \in registry |-> FALSE]
    /\ leaked = [t \in registry |-> 0]
    /\ running = [t \in registry |-> 0]
    /\ fua = NoFua
    /\ stopped = FALSE
    /\ disabledByCall = {}
    /\ filterRules = "default"
    /\ downloading = NoDownloading
    /\ qp = NoQueue
    /\ twType = "dynamic-json"

\* ------------------------------------------------------------ what an operation reports

\* The file names a listing response shows after the filters, as a set.
ListedSet(resp) == IF resp.code = 200 THEN Range(MapNames(FilterListing(resp.body))) ELSE {}

\* The listed files that do not exist locally: the ones a run fetches, and
\* whose fetch or write can fail.
Missing(resp) == {n \in ListedSet(resp) : local[n] = "none"}

\* The record of the last operation:
\*   op           which operation ran ("env": the remote changed since)
\*   listed       its change check got a 200 listing
\*   hadSnapshot  the snapshot the check compares with was not empty
\*   sameSet      the listing and the snapshot held the same set of names
\*   changed      the change check answered "changed"
\*   failed       the run failed (it threw, or answered false)
\*   throttled    the listing requests of the run that were answered 403
\*   snapshotKept the stored snapshot is the one from before the run
\*   attempted    the files the run fetched; written: those it wrote
\*   skipped      the listed files the run found to exist
\*   repeated     the same operation ran just before, the remote unchanged
\*   allPresent   every remote file passing the filters existed locally
\*                when the run began
\*   noMatch      the watched file was fetched and the pattern did not match
\*   url          the URL the pattern captured
\*   urlMoved     a checkpoint was there, recorded for another URL
\*   body         the body the download of the data answered with
\*   failCount    the sources whose download failed within the run
NoObs ==
    [op |-> "none", listed |-> FALSE, hadSnapshot |-> FALSE, sameSet |-> FALSE,
     changed |-> FALSE, failed |-> FALSE, throttled |-> {}, snapshotKept |-> TRUE,
     attempted |-> {}, skipped |-> {}, written |-> {},
     repeated |-> FALSE, allPresent |-> FALSE,
     resolved |-> FALSE, succeeded |-> FALSE, ckAbsent |-> FALSE, readThrew |-> FALSE,
     lookupSame |-> FALSE, lookupDiffers |-> FALSE, lookedUp |-> Null,
     failedLookups |-> {}, reportedChanged |-> {}, ckReplaced |-> {}, stored |-> {},
     fetched |-> {}, afterRestart |-> FALSE, sameAsNoRestart |-> TRUE,
     name |-> "", began |-> {}, armed |-> {}, returned |-> TRUE, whileStopped |-> FALSE,
     afterDisable |-> FALSE, fuaDone |-> {}, results |-> {}, fuaSucceeded |-> {},
     noMatch |-> FALSE, url |-> "", urlMoved |-> FALSE, body |-> "", failCount |-> 0]

\* The listing requests answered 403, of those the run made.
Throttled(resp1, checkMade, resp2, downloadMade) ==
    {x \in {"check"} : checkMade /\ resp1.code = 403}
        \cup {x \in {"download"} : downloadMade /\ resp2.code = 403}

\* The names getLocalFileList answers, as a set.
LocalListed == {n \in Names : local[n] # "none" /\ isValidFile(n)}

\* The files of the remote directory that pass the filters.
RemoteValid ==
    {n \in Names : remote[n] = "file" /\ isValidFile(n) /\ ~shouldExcludeFile(n)}

AllPresent == \A n \in RemoteValid : local[n] # "none"

\* performUpdateCheck: the interval gate, checkForUpdates and, on a change
\* (enableAutoDownload is on), downloadAllFiles, whose verdict is dropped.
\* [threw, value, lastFileList, checked, local, ran, attempted, skipped, written]
performUpdateCheck(lastFileList, checked, loc, elapsed, resp1, resp2, failed) ==
    LET chk == checkForUpdates(lastFileList, checked, resp1)
        dl == downloadAllFiles(loc, resp2, failed)
        idle == [threw |-> FALSE, value |-> FALSE, lastFileList |-> lastFileList,
                 checked |-> checked, local |-> loc, ran |-> FALSE,
                 attempted |-> {}, skipped |-> {}, written |-> {}]
    IN  IF checked /\ ~elapsed THEN idle
        ELSE IF chk.threw THEN [idle EXCEPT !.threw = TRUE, !.ran = TRUE]
        ELSE IF ~chk.value THEN [idle EXCEPT !.ran = TRUE]
        ELSE [threw |-> dl.threw, value |-> TRUE, lastFileList |-> chk.lastFileList,
              checked |-> chk.checked, local |-> dl.local, ran |-> TRUE,
              attempted |-> dl.attempted, skipped |-> dl.skipped, written |-> dl.written]

\* ------------------------------------------------------------ actions: the directory mirror

\* UpdateManager.performUpdate("sprite"): one run of the "github" task.
UMGithubRun ==
    /\ engine = "UpdateManager"
    /\ \E resp1 \in ListingResponses :
      \E resp2 \in (IF checkGitHubUpdates(local, resp1).value THEN ListingResponses ELSE {resp1}) :
        \E failed \in SUBSET Missing(resp2) :
          \E r \in {updateGitHubFiles(local, resp1, resp2, failed)} :
              /\ local' = r.local
              /\ status' = [status EXCEPT !["sprite"] = IF r.value THEN "success" ELSE "error"]
              /\ obs' = [NoObs EXCEPT !.op = "um",
                                      !.listed = resp1.code = 200,
                                      !.hadSnapshot = LocalListed # {},
                                      !.sameSet = resp1.code = 200 /\ ListedSet(resp1) = LocalListed,
                                      !.changed = r.changed,
                                      !.failed = ~r.value,
                                      !.throttled = Throttled(resp1, TRUE, resp2, r.changed),
                                      !.attempted = r.attempted,
                                      !.skipped = r.skipped,
                                      !.written = r.written,
                                      !.repeated = obs.op = "um",
                                      !.allPresent = AllPresent]
              /\ info' = [info EXCEPT !["sprite"] =
                             EndUpdate(BeginUpdate(@), IF r.value THEN "success" ELSE "failure")]
              /\ UNCHANGED <<engine, qp, twType, filterVars, remote, udLastFileList, udChecked, commitVars, lifeVars>>

\* UnifiedDownloader.checkForUpdates(), called on its own.
UDCheckForUpdates ==
    /\ engine = "AutoUpdater"
    /\ \E resp \in ListingResponses :
      \E r \in {checkForUpdates(udLastFileList, udChecked, resp)} :
            /\ udLastFileList' = r.lastFileList
            /\ udChecked' = r.checked
            /\ obs' = [NoObs EXCEPT !.op = "udCheck",
                                    !.listed = resp.code = 200,
                                    !.changed = r.value,
                                    !.failed = r.threw,
                                    !.throttled = Throttled(resp, TRUE, resp, FALSE),
                                    !.hadSnapshot = Len(udLastFileList) > 0,
                                    !.sameSet = resp.code = 200 /\ ListedSet(resp) = Range(udLastFileList),
                                    !.snapshotKept = r.lastFileList = udLastFileList]
            /\ UNCHANGED <<engine, qp, twType, filterVars, remote, local, status, commitVars, info, lifeVars>>

\* UnifiedDownloader.downloadAllFiles(), called on its own
\* (Scheduler.forceUpdateAll).
UDDownloadAllFiles ==
    /\ engine = "AutoUpdater"
    /\ \E resp \in ListingResponses :
      \E failed \in SUBSET Missing(resp) :
        \E r \in {downloadAllFiles(local, resp, failed)} :
            /\ local' = r.local
            /\ obs' = [NoObs EXCEPT !.op = "udForce",
                                    !.failed = r.threw \/ ~r.value,
                                    !.throttled = Throttled(resp, FALSE, resp, TRUE),
                                    !.attempted = r.attempted,
                                    !.skipped = r.skipped,
                                    !.written = r.written,
                                    !.repeated = obs.op = "udForce",
                                    !.allPresent = AllPresent]
            /\ UNCHANGED <<engine, qp, twType, filterVars, remote, udLastFileList, udChecked, status, commitVars, info, lifeVars>>

\* UnifiedDownloader.performUpdateCheck(): the Scheduler's periodic check.
UDPerformUpdateCheck ==
    /\ engine = "AutoUpdater"
    /\ \E elapsed \in BOOLEAN, resp1 \in ListingResponses :
      \E resp2 \in (IF checkForUpdates(udLastFileList, udChecked, resp1).value
                    THEN ListingResponses ELSE {resp1}) :
        \E failed \in SUBSET Missing(resp2) :
          \E r \in {performUpdateCheck(udLastFileList, udChecked, local, elapsed, resp1, resp2, failed)} :
              /\ local' = r.local
              /\ udLastFileList' = r.lastFileList
              /\ udChecked' = r.checked
              /\ obs' = [NoObs EXCEPT !.op = "ud",
                                      !.listed = r.ran /\ resp1.code = 200,
                                      !.changed = r.value,
                                      !.failed = r.threw,
                                      !.throttled = Throttled(resp1, r.ran, resp2, r.value),
                                      !.hadSnapshot = Len(udLastFileList) > 0,
                                      !.sameSet = r.ran /\ resp1.code = 200
                                                  /\ ListedSet(resp1) = Range(udLastFileList),
                                      !.snapshotKept = r.lastFileList = udLastFileList,
                                      !.attempted = r.attempted,
                                      !.skipped = r.skipped,
                                      !.written = r.written,
                                      !.repeated = obs.op = "ud",
                                      !.allPresent = AllPresent]
              /\ UNCHANGED <<engine, qp, twType, filterVars, remote, status, commitVars, info, lifeVars>>

\* The remote directory changes: an entry appears, disappears, or turns from
\* a file into a directory or back.
RemoteChange ==
    \E n \in Names, v \in {"none", "dir", "file"} :
        /\ remote[n] # v
        /\ remote' = [remote EXCEPT ![n] = v]
        /\ obs' = [NoObs EXCEPT !.op = "env"]
        /\ UNCHANGED <<engine, qp, twType, filterVars, local, udLastFileList, udChecked, status, commitVars, info, lifeVars>>

\* ------------------------------------------------------------ the runs over checkpoints

NoLookup == [kind |-> "none", sha |-> ""]

NoDownload == [code |-> 0, body |-> ""]

\* No restart since the last run that uses in-memory checkpoints.
NoRestart == [on |-> FALSE, urls |-> Null, hashes |-> [u \in GithubRawUrls |-> Null]]

\* The state after construction: no file written yet, nothing remembered.
CommitInit ==
    /\ commitFile = NoFile
    /\ jsonFile = [l \in Langs |-> "missing"]
    /\ jsonSources = [l \in Langs |-> ""]
    /\ umLastKnownUrls = Null
    /\ udCommitHashes = [u \in GithubRawUrls |-> Null]
    /\ jmFile = [state |-> "missing", urls |-> <<>>]
    /\ preRestart = NoRestart

\* Whether the descriptor downloadNewDataFromUrls gets for a language has its
\* fields (the default descriptor, for a task the registry modelled leaves out).
Complete ==
    [l \in Langs |-> IF TaskOf[l] \in DOMAIN configs THEN configs[TaskOf[l]].complete ELSE TRUE]

\* performUpdate("characters-tw"): one run of the dynamic-json task. With
\* `traced`, obs also keeps what the run resolved and what it was answered.
UMDynamicJsonRunOf(traced) ==
    /\ engine = "UpdateManager"
    /\ \E watched \in WatchedAnswers :
         LET url == watched.url
             resolved == watched.code = 200 /\ url # ""
             onGithub == resolved /\ url \in GithubRawUrls
         IN
         \E look1 \in (IF onGithub THEN LookupAnswers ELSE {NoLookup}) :
         \E dl \in (IF resolved /\ checkCommitAndUpdate(commitFile, url, look1)
                    THEN DownloadAnswers ELSE {NoDownload}) :
         \E writeOk \in (IF dl.code = 200 /\ dl.body # "notJson" THEN BOOLEAN ELSE {FALSE}) :
         \E look2 \in (IF writeOk /\ onGithub THEN LookupAnswers ELSE {NoLookup}) :
         \E ckWriteOk \in (IF writeOk THEN BOOLEAN ELSE {FALSE}) :
         \E r \in {updateDynamicJsonData(commitFile, jsonFile["tw"],
                       [watched |-> watched, look1 |-> look1, dl |-> dl, writeOk |-> writeOk,
                        look2 |-> look2, ckWriteOk |-> ckWriteOk])} :
            /\ commitFile' = r.commitFile
            /\ jsonFile' = [jsonFile EXCEPT !["tw"] = r.json]
            /\ status' = [status EXCEPT !["characters-tw"] =
                              IF r.value THEN "success" ELSE "error"]
            /\ obs' = [NoObs EXCEPT
                         !.op = "dj",
                         !.resolved = r.resolved,
                         !.succeeded = r.value,
                         !.changed = r.changed,
                         !.ckAbsent = r.resolved /\ commitFile.state \in Damaged,
                         !.lookupSame = /\ onGithub /\ look1.kind = "sha"
                                        /\ commitFile.state = "ok"
                                        /\ commitFile.commitHash = Sha(look1.sha),
                         !.lookupDiffers = /\ onGithub /\ look1.kind = "sha"
                                           /\ commitFile.state = "ok"
                                           /\ commitFile.commitHash # Sha(look1.sha),
                         !.lookedUp = IF onGithub /\ look1.kind = "sha"
                                      THEN Sha(look1.sha) ELSE Null,
                         !.failedLookups = {u \in {url} : onGithub /\ look1.kind # "sha"},
                         !.reportedChanged = {u \in {url} : r.changed},
                         !.ckReplaced = {u \in {url} : r.commitFile # commitFile},
                         !.stored = {u \in {url} : r.stored},
                         !.fetched = {u \in {url} : r.fetched},
                         !.afterRestart = preRestart.on,
                         !.noMatch = traced /\ watched.code = 200 /\ url = "",
                         !.url = IF traced /\ resolved THEN url ELSE "",
                         !.urlMoved = /\ traced /\ resolved
                                      /\ commitFile.state = "ok" /\ commitFile.url # url,
                         !.body = IF traced /\ dl.code = 200 THEN dl.body ELSE "",
                         !.failCount = IF traced /\ r.fetched /\ ~r.stored THEN 1 ELSE 0]
            /\ info' = [info EXCEPT !["characters-tw"] =
                           EndUpdate(BeginUpdate(@), IF r.value THEN "success" ELSE "failure")]
            /\ UNCHANGED <<engine, qp, twType, filterVars, mirrorVars, jsonSources, umLastKnownUrls, udCommitHashes,
                           jmFile, preRestart, lifeVars>>

UMDynamicJsonRun == UMDynamicJsonRunOf(FALSE)

UMDynamicJsonRunTraced == UMDynamicJsonRunOf(TRUE)

\* performUpdate("url-monitor"): one run of the url-monitor task. With
\* `traced`, obs also keeps what the run resolved and what it was answered.
UMUrlMonitorRunOf(traced) ==
    /\ engine = "UpdateManager"
    /\ \E extract \in ExtractAnswers :
         LET download == /\ extract.code = 200 /\ extract.urls # Null
                         /\ umLastKnownUrls # Null
                         /\ compareUrls(umLastKnownUrls, extract.urls)
         IN
         \E dl \in (IF download THEN [Langs -> {[code |-> 200, body |-> "compact"],
                                                [code |-> 200, body |-> "notJson"],
                                                [code |-> 500, body |-> ""]}]
                    ELSE {[l \in Langs |-> NoDownload]}) :
         \E writeOk \in (IF download THEN [Langs -> BOOLEAN] ELSE {[l \in Langs |-> FALSE]}) :
         \E in \in {[extract |-> extract, dl |-> dl, writeOk |-> writeOk,
                     complete |-> Complete]} :
         \E r \in {updateUrlMonitor(umLastKnownUrls, jsonFile, jsonSources, in)} :
         \E q \in {IF preRestart.on
                   THEN updateUrlMonitor(preRestart.urls, jsonFile, jsonSources, in)
                   ELSE r} :
            /\ umLastKnownUrls' = r.lastKnownUrls
            /\ jsonFile' = r.json
            /\ jsonSources' = r.sources
            /\ status' = [status EXCEPT !["url-monitor"] =
                              IF r.value THEN "success" ELSE "error"]
            /\ preRestart' = NoRestart
            /\ obs' = [NoObs EXCEPT
                         !.op = "urlMonitor",
                         !.resolved = extract.code = 200 /\ extract.urls # Null,
                         !.succeeded = r.value,
                         !.changed = r.changed,
                         !.reportedChanged = {l \in Langs : r.changed},
                         !.fetched = {l \in Langs : r.fetched},
                         !.stored = {l \in Langs : r.fetched /\ r.json[l] # jsonFile[l]},
                         !.afterRestart = preRestart.on,
                         !.sameAsNoRestart = (q.changed = r.changed /\ q.fetched = r.fetched),
                         !.noMatch = traced /\ extract.code = 200 /\ extract.urls = Null,
                         !.failCount = IF traced THEN r.failCount ELSE 0]
            /\ info' = [info EXCEPT !["url-monitor"] =
                           EndUpdate(BeginUpdate(@), IF r.value THEN "success" ELSE "failure")]
            /\ UNCHANGED <<engine, qp, twType, filterVars, mirrorVars, commitFile, udCommitHashes, jmFile, lifeVars>>

UMUrlMonitorRun == UMUrlMonitorRunOf(FALSE)

UMUrlMonitorRunTraced == UMUrlMonitorRunOf(TRUE)

\* UnifiedDownloader.fetchFromAllSources, as Scheduler.checkUrlUpdates calls it.
UDFetchFromAllSources ==
    /\ engine = "AutoUpdater"
    /\ \E look \in [{u \in Range(UdSources) : isGitHubRawUrl(u)} -> LookupAnswers] :
       \E fetchOk \in [Range(UdSources) -> BOOLEAN] :
       \E in \in {[look |-> look, fetchOk |-> fetchOk]} :
       \E r \in {fetchFromAllSources(udCommitHashes, in)} :
       \E q \in {IF preRestart.on THEN fetchFromAllSources(preRestart.hashes, in) ELSE r} :
            /\ udCommitHashes' = r.hashes
            /\ preRestart' = NoRestart
            /\ obs' = [NoObs EXCEPT
                         !.op = "udFetch",
                         !.resolved = TRUE,
                         !.succeeded = r.attempted = r.fetched,
                         !.changed = r.changed # {},
                         !.failedLookups = {u \in r.checked : look[u].kind # "sha"},
                         !.reportedChanged = r.changed,
                         !.ckReplaced = {u \in GithubRawUrls : r.hashes[u] # udCommitHashes[u]},
                         !.stored = r.fetched,
                         !.fetched = r.attempted,
                         !.afterRestart = preRestart.on,
                         !.sameAsNoRestart = (q.changed = r.changed /\ q.attempted = r.attempted)]
            /\ UNCHANGED <<engine, qp, twType, filterVars, mirrorVars, status, commitFile, jsonFile, jsonSources,
                           umLastKnownUrls, jmFile, info, lifeVars>>

\* The lists of URLs a JsonManager is handed, sorted or not.
UrlLists == {<<>>} \cup {<<u>> : u \in GithubRawUrls} \cup {s \in Perms(GithubRawUrls) : TRUE}

UrlRank(url) == IF url = "https://raw.githubusercontent.com/o/r/main/a.json" THEN 1 ELSE 2

\* urls.sort((a, b) => a.url.localeCompare(b.url))
SortUrls(urls) == SortSeq(urls, LAMBDA a, b : UrlRank(a) < UrlRank(b))

\* JsonManager.readExistingData, and hasNewUpdates on what it returned.
JMReadExistingData ==
    /\ engine = "AutoUpdater"
    /\ \E newUrls \in UrlLists :
       \E r \in {readExistingData(jmFile)} :
            /\ obs' = [NoObs EXCEPT
                         !.op = "jmRead",
                         !.resolved = TRUE,
                         !.ckAbsent = jmFile.state \in Damaged,
                         !.readThrew = r.threw,
                         !.succeeded = ~r.threw,
                         !.changed = ~r.threw /\ hasNewUpdates(r.value, SortUrls(newUrls))]
            /\ UNCHANGED <<engine, qp, twType, filterVars, mirrorVars, status, commitVars, info, lifeVars>>

\* JsonManager.writeNewData: a failed write is thrown and leaves the file.
JMWriteNewData ==
    /\ engine = "AutoUpdater"
    /\ \E urls \in UrlLists :
       \E writeOk \in BOOLEAN :
            /\ jmFile' = IF writeOk THEN [state |-> "ok", urls |-> SortUrls(urls)] ELSE jmFile
            /\ obs' = [NoObs EXCEPT !.op = "jmWrite", !.succeeded = writeOk]
            /\ UNCHANGED <<engine, qp, twType, filterVars, mirrorVars, status, commitFile, jsonFile, jsonSources,
                           umLastKnownUrls, udCommitHashes, preRestart, info, lifeVars>>

\* The process ends and starts again: new UpdateManager(), new
\* UnifiedDownloader(...) over the files the old ones left.
Restart ==
    /\ obs.op \in {"dj", "urlMonitor", "udFetch"}
    /\ preRestart' = [on |-> TRUE, urls |-> umLastKnownUrls, hashes |-> udCommitHashes]
    /\ umLastKnownUrls' = Null
    /\ udCommitHashes' = [u \in GithubRawUrls |-> Null]
    /\ udLastFileList' = <<>>
    /\ udChecked' = FALSE
    /\ jsonSources' = [l \in Langs |-> ""]
    /\ status' = [t \in Tasks |-> "disabled"]
    /\ obs' = [NoObs EXCEPT !.op = "restart"]
    /\ UNCHANGED <<engine, remote, local, commitFile, jsonFile, jmFile>>
    /\ qp' = NoQueue
    /\ twType' = "dynamic-json"
    /\ filterRules' = "default"
    /\ downloading' = NoDownloading
    /\ info' = [t \in DOMAIN info |-> NoInfo]
    /\ configs' = [t \in DOMAIN configs |-> DefaultConfig]
    /\ intervals' = [t \in DOMAIN intervals |-> FALSE]
    /\ leaked' = [t \in DOMAIN leaked |-> 0]
    /\ running' = [t \in DOMAIN running |-> 0]
    /\ fua' = NoFua
    /\ stopped' = FALSE
    /\ disabledByCall' = {}

\* Something else than the program damages or removes a checkpoint file.
CheckpointFileDamage ==
    /\ ~preRestart.on
    /\ \E d \in Damaged :
         \/ /\ engine = "UpdateManager"
            /\ commitFile.state # d
            /\ commitFile' = [NoFile EXCEPT !.state = d]
            /\ UNCHANGED jmFile
         \/ /\ engine = "AutoUpdater"
            /\ jmFile.state # d
            /\ jmFile' = [state |-> d, urls |-> <<>>]
            /\ UNCHANGED commitFile
    /\ obs' = [NoObs EXCEPT !.op = "env"]
    /\ UNCHANGED <<engine, qp, twType, filterVars, mirrorVars, status, jsonFile, jsonSources, umLastKnownUrls,
                   udCommitHashes, preRestart, info, lifeVars>>

InitMirror ==
    /\ engine \in {"UpdateManager", "AutoUpdater"}
    /\ remote \in [Names -> {"none", "dir", "file"}]
    /\ local \in [Names -> {"none", "old"}]
    /\ udLastFileList = <<>>
    /\ udChecked = FALSE
    /\ status = [t \in Tasks |-> "disabled"]
    /\ obs = NoObs
    /\ CommitInit
    /\ LifeInit(Tasks)

NextMirror ==
    \/ UMGithubRun
    \/ UDCheckForUpdates
    \/ UDDownloadAllFiles
    \/ UDPerformUpdateCheck
    \/ RemoteChange

SpecMirror == InitMirror /\ [][NextMirror]_vars

\* ------------------------------------------------------------ UpdateManager: the registry's calls

\* The order of UpdateManager.configs (a Map keeps the order of insertion).
TaskOrder == <<"sprite", "characters-tw", "url-monitor">>

\* The registered tasks, in the order start() and forceUpdateAll() visit them.
Registered == SelectSeq(TaskOrder, LAMBDA t : t \in DOMAIN configs)

\* The first enabled task after position i of the registry, "" when none.
NextEnabled(i) ==
    LET later == {j \in (i + 1)..Len(Registered) : configs[Registered[j]].enabled}
    IN  IF later = {} THEN ""
        ELSE Registered[CHOOSE j \in later : \A k \in later : j <= k]

Position(t) == CHOOSE i \in 1..Len(Registered) : Registered[i] = t

\* What the network answers to one run of task t, while the registry's
\* calls are explored: the watched file names one URL or another, a commit
\* lookup answers a SHA or is refused, a download succeeds or not.
RunInputs(t) ==
    IF t = "characters-tw"
    THEN {[watched |-> [code |-> 200, url |-> "https://raw.githubusercontent.com/o/r/main/a.json"],
           look1 |-> l, dl |-> d, writeOk |-> d.code = 200, look2 |-> l,
           ckWriteOk |-> d.code = 200] :
              l \in {[kind |-> "sha", sha |-> "abc123"]},
              d \in {[code |-> 200, body |-> "compact"], [code |-> 500, body |-> ""]}}
    ELSE IF t = "url-monitor"
    THEN {[extract |-> e,
           dl |-> [l \in Langs |-> [code |-> 200, body |-> "compact"]],
           writeOk |-> [l \in Langs |-> TRUE]] :
              e \in {[code |-> 200,
                       urls |-> [twUrl |-> "https://raw.githubusercontent.com/o/r/main/a.json",
                                 enUrl |-> "https://raw.githubusercontent.com/o/r/main/a.json"]],
                      [code |-> 500, urls |-> Null]}}
    ELSE {[resp1 |-> r, resp2 |-> r, failed |-> {}] :
              r \in {[code |-> 200, body |-> <<>>], [code |-> 403, body |-> <<>>]}}

\* The switch of performUpdate: what the run of task t answers and leaves.
\* A configuration that lacks a field of its type makes the github and the
\* url-monitor task throw; the dynamic-json task catches it and answers false.
RunTask(t, in) ==
    LET same == [outcome |-> "threw", local |-> local, commitFile |-> commitFile,
                 jsonFile |-> jsonFile, jsonSources |-> jsonSources,
                 lastKnownUrls |-> umLastKnownUrls]
        dj == updateDynamicJsonData(commitFile, jsonFile["tw"], in)
        um == updateUrlMonitor(umLastKnownUrls, jsonFile, jsonSources,
                               [extract |-> in.extract, dl |-> in.dl, writeOk |-> in.writeOk,
                                complete |-> Complete])
        gh == updateGitHubFiles(local, in.resp1, in.resp2, in.failed)
        Outcome(value) == IF value THEN "success" ELSE "failure"
    IN  IF ~configs[t].complete
        THEN [same EXCEPT !.outcome = IF t = "characters-tw" THEN "failure" ELSE "threw"]
        ELSE IF t = "characters-tw"
        THEN [same EXCEPT !.outcome = Outcome(dj.value), !.commitFile = dj.commitFile,
                          !.jsonFile = [jsonFile EXCEPT !["tw"] = dj.json]]
        ELSE IF t = "url-monitor"
        THEN [same EXCEPT !.outcome = Outcome(um.value), !.jsonFile = um.json,
                          !.jsonSources = um.sources, !.lastKnownUrls = um.lastKnownUrls]
        ELSE [same EXCEPT !.outcome = Outcome(gh.value), !.local = gh.local]

\* startTask for the tasks S: performUpdate(name) is called and not awaited,
\* then setInterval, intervals.set, isRunning, nextCheck. A handle intervals
\* already holds is replaced without clearInterval.
StartTasks(S) ==
    /\ \A t \in S : running[t] < MaxInflight /\ (intervals[t] => leaked[t] < MaxLeaked)
    /\ status' = [t \in DOMAIN status |-> IF t \in S THEN "pending" ELSE status[t]]
    /\ info' = [t \in DOMAIN info |->
                   IF t \in S
                   THEN [BeginUpdate(info[t]) EXCEPT !.isRunning = TRUE, !.nextCheck = "date"]
                   ELSE info[t]]
    /\ running' = [t \in DOMAIN running |-> IF t \in S THEN running[t] + 1 ELSE running[t]]
    /\ leaked' = [t \in DOMAIN leaked |->
                     IF t \in S /\ intervals[t] THEN leaked[t] + 1 ELSE leaked[t]]
    /\ intervals' = [t \in DOMAIN intervals |-> t \in S \/ intervals[t]]

\* UpdateManager.start()
Start ==
    /\ engine = "UpdateManager"
    /\ \E S \in {{t \in DOMAIN configs : configs[t].enabled}} :
         /\ StartTasks(S)
         /\ stopped' = FALSE
         /\ obs' = [NoObs EXCEPT !.op = "start", !.began = S, !.armed = S]
         /\ UNCHANGED <<engine, qp, twType, filterVars, mirrorVars, commitVars, configs, fua, disabledByCall>>

\* UpdateManager.stop()
Stop ==
    /\ engine = "UpdateManager"
    /\ intervals' = [t \in DOMAIN intervals |-> FALSE]
    /\ info' = [t \in DOMAIN info |->
                   IF intervals[t] THEN ClearTimer(info[t]) ELSE info[t]]
    /\ stopped' = TRUE
    /\ obs' = [NoObs EXCEPT !.op = "stop"]
    /\ UNCHANGED <<engine, qp, twType, filterVars, mirrorVars, commitVars, status, configs, leaked, running, fua,
                   disabledByCall>>

\* A timer set by startTask fires: performUpdate(name) is called.
TimerTick ==
    /\ engine = "UpdateManager"
    /\ \E t \in DOMAIN configs :
         /\ intervals[t] \/ leaked[t] > 0
         /\ running[t] < MaxInflight
         /\ status' = [status EXCEPT ![t] = "pending"]
         /\ info' = [info EXCEPT ![t] = BeginUpdate(@)]
         /\ running' = [running EXCEPT ![t] = @ + 1]
         /\ obs' = [NoObs EXCEPT !.op = "tick", !.name = t, !.began = {t},
                                 !.whileStopped = stopped,
                                 !.afterDisable = t \in disabledByCall]
         /\ UNCHANGED <<engine, qp, twType, filterVars, mirrorVars, commitVars, configs, intervals, leaked, fua,
                        stopped, disabledByCall>>

\* A run of performUpdate(name) that is in flight gets its answer, for a
\* task of `answered`: the tasks whose requests are answered.
RunEndOf(answered) ==
    /\ engine = "UpdateManager"
    /\ \E t \in DOMAIN configs \cap answered :
         /\ running[t] > 0
         /\ \E in \in RunInputs(t) :
            \E r \in {RunTask(t, in)} :
              /\ status' = [status EXCEPT ![t] = StatusAfter(r.outcome)]
              /\ info' = [info EXCEPT ![t] = EndUpdate(@, r.outcome)]
              /\ running' = [running EXCEPT ![t] = @ - 1]
              /\ local' = r.local
              /\ commitFile' = r.commitFile
              /\ jsonFile' = r.jsonFile
              /\ jsonSources' = r.jsonSources
              /\ umLastKnownUrls' = r.lastKnownUrls
              /\ obs' = [NoObs EXCEPT !.op = "runEnd", !.name = t,
                                      !.succeeded = r.outcome = "success"]
              /\ UNCHANGED <<engine, qp, twType, filterVars, remote, udLastFileList, udChecked, udCommitHashes, jmFile,
                             preRestart, configs, intervals, leaked, fua, stopped,
                             disabledByCall>>

\* Every request is answered in the end.
RunEnd == RunEndOf(DOMAIN configs)

\* The timers of task t that setInterval armed and no clearInterval cancelled:
\* the one whose handle intervals holds, and those whose handle was replaced.
Timers(held, replaced, t) == (IF held[t] THEN 1 ELSE 0) + replaced[t]

\* The names a caller passes: the registered tasks, and one that is not.
CallNames == DOMAIN configs \cup {"unknown"}

\* UpdateManager.setTaskEnabled(name, enabled)
SetTaskEnabled ==
    /\ engine = "UpdateManager"
    /\ \E name \in CallNames, enabled \in BOOLEAN :
         /\ obs' = [NoObs EXCEPT
                      !.op = IF enabled THEN "enable" ELSE "disable",
                      !.name = name,
                      !.began = {t \in DOMAIN configs : t = name /\ enabled /\ ~intervals[t]},
                      !.armed = {t \in DOMAIN configs : t = name /\ enabled /\ ~intervals[t]}]
         /\ IF name \notin DOMAIN configs
            THEN UNCHANGED <<status, info, configs, intervals, leaked, running, stopped,
                             disabledByCall>>
            ELSE /\ configs' = [configs EXCEPT ![name].enabled = enabled]
                 /\ disabledByCall' = IF enabled THEN disabledByCall \ {name}
                                      ELSE disabledByCall \cup {name}
                 /\ stopped' = (stopped /\ ~enabled)
                 /\ IF enabled /\ ~intervals[name]
                    THEN StartTasks({name})
                    ELSE IF ~enabled /\ intervals[name]
                    THEN /\ intervals' = [intervals EXCEPT ![name] = FALSE]
                         /\ info' = [info EXCEPT ![name] = ClearTimer(@)]
                         /\ UNCHANGED <<status, leaked, running>>
                    ELSE UNCHANGED <<status, info, intervals, leaked, running>>
         /\ UNCHANGED <<engine, qp, twType, filterVars, mirrorVars, commitVars, fua>>

\* UpdateManager.forceUpdate(name): false for a task that is not registered
\* or not enabled; else performUpdate(name) is awaited and true is returned.
ForceUpdate ==
    /\ engine = "UpdateManager"
    /\ \E name \in CallNames :
         LET known == name \in DOMAIN configs /\ configs[name].enabled
         IN  /\ known => running[name] < MaxInflight
             /\ status' = IF known THEN [status EXCEPT ![name] = "pending"] ELSE status
             /\ info' = IF known THEN [info EXCEPT ![name] = BeginUpdate(@)] ELSE info
             /\ running' = IF known THEN [running EXCEPT ![name] = @ + 1] ELSE running
             /\ obs' = [NoObs EXCEPT !.op = "force", !.name = name,
                                     !.began = {t \in DOMAIN configs : t = name /\ known},
                                     !.returned = known]
             /\ UNCHANGED <<engine, qp, twType, filterVars, mirrorVars, commitVars, configs, intervals, leaked, fua,
                            stopped, disabledByCall>>

\* UpdateManager.addConfig(config) for a name that is registered: the
\* configuration is replaced and the status is made anew; intervals is left.
\* A name is registered anew once at most, and while no run of it is under
\* way (a run under way holds the status object that addConfig replaces).
AddConfig ==
    /\ engine = "UpdateManager"
    /\ \E name \in DOMAIN configs, enabled \in BOOLEAN, complete \in BOOLEAN :
         /\ ~configs[name].added
         /\ running[name] = 0
         /\ configs' = [configs EXCEPT ![name] =
                            [enabled |-> enabled, complete |-> complete, added |-> TRUE]]
         /\ status' = [status EXCEPT ![name] = "disabled"]
         /\ info' = [info EXCEPT ![name] = NoInfo]
         /\ disabledByCall' = disabledByCall \ {name}
         /\ obs' = [NoObs EXCEPT !.op = "addConfig", !.name = name]
         /\ UNCHANGED <<engine, qp, twType, filterVars, mirrorVars, commitVars, intervals, leaked, running, fua, stopped>>

\* UpdateManager.forceUpdateAll() up to its first await: the run of the
\* first enabled task is begun and awaited; {} is returned when there is none.
ForceUpdateAllBegin ==
    /\ engine = "UpdateManager"
    /\ ~fua.active
    /\ \E first \in {NextEnabled(0)} :
         /\ fua' = IF first = "" THEN NoFua ELSE [NoFua EXCEPT !.active = TRUE, !.current = first]
         /\ status' = IF first = "" THEN status ELSE [status EXCEPT ![first] = "pending"]
         /\ info' = IF first = "" THEN info ELSE [info EXCEPT ![first] = BeginUpdate(@)]
         /\ obs' = [NoObs EXCEPT !.op = IF first = "" THEN "fuaReturn" ELSE "fua",
                                 !.began = {t \in DOMAIN configs : t = first}]
         /\ UNCHANGED <<engine, qp, twType, filterVars, mirrorVars, commitVars, configs, intervals, leaked, running,
                        stopped, disabledByCall>>

\* The run forceUpdateAll() awaits gets its answer: results[name] = true, and
\* the loop goes on to the next enabled task, or returns results.
ForceUpdateAllStepOf(answered) ==
    /\ engine = "UpdateManager"
    /\ fua.active
    /\ \E t \in {fua.current} \cap answered :
       \E in \in RunInputs(t) :
       \E r \in {RunTask(t, in)} :
       \E next \in {NextEnabled(Position(t))} :
       \E results \in {fua.results \cup {[name |-> t, value |-> TRUE]}} :
       \E succeeded \in {fua.succeeded \cup {x \in {t} : r.outcome = "success"}} :
         /\ status' = [x \in DOMAIN status |->
                          IF x = next THEN "pending"
                          ELSE IF x = t THEN StatusAfter(r.outcome) ELSE status[x]]
         /\ info' = [x \in DOMAIN info |->
                        IF x = next THEN BeginUpdate(info[x])
                        ELSE IF x = t THEN EndUpdate(info[x], r.outcome) ELSE info[x]]
         /\ local' = r.local
         /\ commitFile' = r.commitFile
         /\ jsonFile' = r.jsonFile
         /\ jsonSources' = r.jsonSources
         /\ umLastKnownUrls' = r.lastKnownUrls
         /\ fua' = IF next = "" THEN NoFua
                   ELSE [active |-> TRUE, current |-> next, results |-> results,
                         succeeded |-> succeeded]
         /\ obs' = [NoObs EXCEPT !.op = IF next = "" THEN "fuaReturn" ELSE "fua",
                                 !.name = t,
                                 !.began = {x \in DOMAIN configs : x = next},
                                 !.fuaDone = {x.name : x \in results},
                                 !.results = IF next = "" THEN results ELSE {},
                                 !.fuaSucceeded = IF next = "" THEN succeeded ELSE {},
                                 !.succeeded = r.outcome = "success"]
         /\ UNCHANGED <<engine, qp, twType, filterVars, remote, udLastFileList, udChecked, udCommitHashes, jmFile,
                        preRestart, configs, intervals, leaked, running, stopped,
                        disabledByCall>>

ForceUpdateAllStep == ForceUpdateAllStepOf(DOMAIN configs)

\* The tasks whose calls are explored: one with a commit file, one with
\* in-memory URLs.
LifecycleTasks == {"characters-tw", "url-monitor"}

InitLifecycle ==
    /\ engine = "UpdateManager"
    /\ remote = [n \in Names |-> "none"]
    /\ local = [n \in Names |-> "none"]
    /\ udLastFileList = <<>>
    /\ udChecked = FALSE
    /\ status = [t \in LifecycleTasks |-> "disabled"]
    /\ obs = NoObs
    /\ CommitInit
    /\ LifeInit(LifecycleTasks)

\* The calls of the bot's schedule (start, the hourly forceUpdate, the daily
\* forceUpdateAll) and of its operators (stop, setTaskEnabled).
NextLifecycle ==
    \/ Start
    \/ Stop
    \/ TimerTick
    \/ RunEnd
    \/ SetTaskEnabled
    \/ ForceUpdate
    \/ ForceUpdateAllBegin
    \/ ForceUpdateAllStep

SpecLifecycle == InitLifecycle /\ [][NextLifecycle]_vars

\* The calls on one task at a time.
NextTimers ==
    \/ Start
    \/ Stop
    \/ TimerTick
    \/ RunEnd
    \/ SetTaskEnabled
    \/ ForceUpdate

SpecTimers == InitLifecycle /\ [][NextTimers]_vars

\* start and stop over a registry whose tasks are registered anew.
NextRegistry ==
    \/ Start
    \/ Stop
    \/ TimerTick
    \/ RunEnd
    \/ AddConfig

SpecRegistry == InitLifecycle /\ [][NextRegistry]_vars

\* A fetch of characters-tw never returns (fetch is called without a timeout
\* or an abort signal): no run of it gets its answer.
Hung == {"characters-tw"}

Responsive == LifecycleTasks \ Hung

RunEndResponsive == RunEndOf(Responsive)

ForceUpdateAllStepResponsive == ForceUpdateAllStepOf(Responsive)

NextHung ==
    \/ Start
    \/ SetTaskEnabled
    \/ TimerTick
    \/ RunEndResponsive
    \/ ForceUpdateAllBegin
    \/ ForceUpdateAllStepResponsive

\* The event loop runs every callback that is ready: a timer that is due
\* fires, a run whose request was answered goes on.
SpecHung ==
    /\ InitLifecycle
    /\ [][NextHung]_vars
    /\ WF_vars(NextHung)
    /\ WF_vars(RunEndResponsive)
    /\ WF_vars(ForceUpdateAllStepResponsive)

\* The runs over checkpoints, with an empty mirror.
InitCommit ==
    /\ engine \in {"UpdateManager", "AutoUpdater"}
    /\ remote = [n \in Names |-> "none"]
    /\ local = [n \in Names |-> "none"]
    /\ udLastFileList = <<>>
    /\ udChecked = FALSE
    /\ status = [t \in Tasks |-> "disabled"]
    /\ obs = NoObs
    /\ CommitInit
    /\ LifeInit(Tasks)

NextCommit ==
    \/ UMDynamicJsonRun
    \/ UMUrlMonitorRun
    \/ UDFetchFromAllSources
    \/ JMReadExistingData
    \/ JMWriteNewData
    \/ Restart
    \/ CheckpointFileDamage

SpecCommit == InitCommit /\ [][NextCommit]_vars

\* ------------------------------------------------------------ UpdateManager: a run of "sprite", file by file

\* The filter rules a descriptor of the github task can carry: those of the
\* default descriptor, or rules whose excludePatterns also match names such
\* as "b_draft.png" (names 2, 6, ...).
Rules == {"default", "strict"}

shouldExcludeFileUnder(rules, fileName) ==
    shouldExcludeFile(fileName) \/ (rules = "strict" /\ fileName % 4 = 2)

\* The three .filter() calls of downloadGitHubFiles, with the rules of the
\* descriptor the run holds.
FilterListingUnder(rules, files) ==
    SelectSeq(files, LAMBDA f : /\ f.type = "file"
                                /\ isValidFile(f.name)
                                /\ ~shouldExcludeFileUnder(rules, f.name))

\* performUpdate("sprite") up to the loop of downloadGitHubFiles: the check
\* for updates, the listing and its filters. resp1 answers the check, resp2
\* the listing of downloadGitHubFiles.
SpriteRunBegin ==
    /\ engine = "UpdateManager"
    /\ ~downloading.active
    /\ \E resp1 \in ListingResponses :
         LET remoteFiles == SortNames(MapNames(FilterListingUnder(filterRules, resp1.body)))
             hasUpdates == /\ resp1.code = 200
                           /\ compareFileLists(SortNames(getLocalFileList(local)), remoteFiles)
         IN
         \E resp2 \in (IF hasUpdates THEN ListingResponses ELSE {resp1}) :
         \E validFiles \in {IF hasUpdates /\ resp2.code = 200
                            THEN FilterListingUnder(filterRules, resp2.body) ELSE <<>>} :
         \E outcome \in {IF resp1.code = 403 \/ (resp1.code = 200 /\ ~hasUpdates) THEN "success"
                         ELSE IF resp1.code # 200 \/ resp2.code # 200 THEN "failure"
                         ELSE IF validFiles = <<>> THEN "success"
                         ELSE "pending"} :
            /\ downloading' = IF outcome = "pending"
                               THEN [active |-> TRUE, queue |-> validFiles, detached |-> FALSE]
                               ELSE NoDownloading
            /\ status' = [status EXCEPT !["sprite"] =
                              IF outcome = "pending" THEN "pending"
                              ELSE IF outcome = "success" THEN "success" ELSE "error"]
            /\ info' = [info EXCEPT !["sprite"] =
                           IF outcome = "pending" THEN BeginUpdate(@)
                           ELSE EndUpdate(BeginUpdate(@), outcome)]
            /\ obs' = [NoObs EXCEPT !.op = "spriteBegin",
                                    !.listed = hasUpdates /\ resp2.code = 200,
                                    !.changed = hasUpdates]
            /\ UNCHANGED <<engine, qp, twType, filterRules, mirrorVars, commitVars, lifeVars>>

\* One pass of the loop of downloadGitHubFiles: a file that exists is
\* skipped, another one is fetched and written; a failure is logged. After
\* the last file updateGitHubFiles returns true and performUpdate writes the
\* outcome into the status object it holds.
SpriteRunNextFile ==
    /\ engine = "UpdateManager"
    /\ downloading.active
    /\ \E ok \in BOOLEAN :
         LET file == Head(downloading.queue)
             rest == Tail(downloading.queue)
             write == local[file.name] = "none" /\ ok
             last == rest = <<>>
         IN
            /\ local' = IF write THEN [local EXCEPT ![file.name] = file.content] ELSE local
            /\ downloading' = IF last THEN NoDownloading
                               ELSE [downloading EXCEPT !.queue = rest]
            /\ status' = IF last /\ ~downloading.detached
                          THEN [status EXCEPT !["sprite"] = "success"] ELSE status
            /\ info' = IF last /\ ~downloading.detached
                        THEN [info EXCEPT !["sprite"] = EndUpdate(@, "success")] ELSE info
            /\ obs' = [NoObs EXCEPT !.op = "spriteFile",
                                    !.attempted = {n \in {file.name} : local[n] = "none"},
                                    !.skipped = {n \in {file.name} : local[n] # "none"},
                                    !.written = {n \in {file.name} : write}]
            /\ UNCHANGED <<engine, qp, twType, filterRules, remote, udLastFileList, udChecked, commitVars,
                           lifeVars>>

\* addConfig(config) with a descriptor of "sprite" that carries other filter
\* rules: the descriptor and the status object of the registry are replaced;
\* a run under way keeps the descriptor and the status object it holds.
AddConfigRules ==
    /\ engine = "UpdateManager"
    /\ \E rules \in Rules \ {filterRules} :
         /\ filterRules' = rules
         /\ downloading' = IF downloading.active
                            THEN [downloading EXCEPT !.detached = TRUE] ELSE downloading
         /\ status' = [status EXCEPT !["sprite"] = "disabled"]
         /\ info' = [info EXCEPT !["sprite"] = NoInfo]
         /\ obs' = [NoObs EXCEPT !.op = "addConfig", !.name = "sprite"]
         /\ UNCHANGED <<engine, qp, twType, mirrorVars, commitVars, lifeVars>>

InitFilter ==
    /\ engine = "UpdateManager"
    /\ remote \in [Names -> {"none", "dir", "file"}]
    /\ local \in [Names -> {"none", "old"}]
    /\ udLastFileList = <<>>
    /\ udChecked = FALSE
    /\ status = [t \in Tasks |-> "disabled"]
    /\ obs = NoObs
    /\ CommitInit
    /\ LifeInit(Tasks)

NextFilter ==
    \/ SpriteRunBegin
    \/ SpriteRunNextFile
    \/ AddConfigRules

SpecFilter == InitFilter /\ [][NextFilter]_vars

\* ------------------------------------------------------------ optimizationUtils.queueProcessor

\* A call handles at most MaxItems items with a concurrency of at most
\* MaxConcurrency.
MaxItems == 3

MaxConcurrency == 2

Min(a, b) == IF a < b THEN a ELSE b

\* The items the finally block of processNext starts once every item is
\* started as soon as one settles.
processNextStartsEager(queue) == Len(queue)

\* The items the finally block of processNext starts: `if (queue.length > 0)
\* processNext()`, one item.
processNextStarts(queue) == IF Len(queue) > 0 THEN 1 ELSE 0

\* queueProcessor(items, processFn, concurrency) up to `await
\* Promise.all(workers)`: each of the `concurrency` workers is one call of
\* processNext, which shifts an item and calls processFn when the queue is
\* not empty and returns at once when it is.
QueueProcessorCall ==
    /\ ~qp.called \/ (qp.resolved /\ qp.running = {} /\ qp.queue = <<>>)
    /\ \E n \in 0..MaxItems, c \in 0..MaxConcurrency :
         LET started == 1..Min(n, c)
         IN  /\ qp' = [called |-> TRUE, n |-> n, c |-> c,
                       queue |-> [i \in 1..(n - Min(n, c)) |-> i + Min(n, c)],
                       running |-> started, first |-> started,
                       results |-> <<>>, resolved |-> FALSE, returned |-> 0]
             /\ obs' = [NoObs EXCEPT !.op = "qpCall"]
    /\ UNCHANGED <<engine, twType, filterVars, mirrorVars, status, commitVars, info, lifeVars>>

\* processFn settles for an item in flight: its result (null when it
\* rejected) is pushed, the item leaves `running`, and the finally block
\* starts the next item of the queue without awaiting it.
QueueProcessorSettle ==
    /\ \E item \in qp.running, ok \in BOOLEAN :
         LET k == processNextStarts(qp.queue)
             next == {qp.queue[i] : i \in 1..k}
         IN  /\ qp' = [qp EXCEPT !.results = Append(@, IF ok THEN item ELSE 0),
                                 !.running = (@ \ {item}) \cup next,
                                 !.first = @ \ {item},
                                 !.queue = SubSeq(@, k + 1, Len(@))]
             /\ obs' = [NoObs EXCEPT !.op = "qpSettle"]
    /\ UNCHANGED <<engine, twType, filterVars, mirrorVars, status, commitVars, info, lifeVars>>

\* Promise.all(workers) resolves, every worker having returned, and
\* queueProcessor returns the array.
QueueProcessorReturn ==
    /\ qp.called
    /\ ~qp.resolved
    /\ qp.first = {}
    /\ qp' = [qp EXCEPT !.resolved = TRUE, !.returned = Len(qp.results)]
    /\ obs' = [NoObs EXCEPT !.op = "qpReturn"]
    /\ UNCHANGED <<engine, twType, filterVars, mirrorVars, status, commitVars, info, lifeVars>>

\* The calls that hold work in flight: queueProcessor, and a run of the
\* github task going through its files.
NextQueue ==
    \/ QueueProcessorCall
    \/ QueueProcessorSettle
    \/ QueueProcessorReturn
    \/ SpriteRunBegin
    \/ SpriteRunNextFile

SpecQueue == InitFilter /\ [][NextQueue]_vars

\* ------------------------------------------------------------ UpdateManager: a "json" descriptor under the name characters-tw

\* addConfig({name: "characters-tw", type: "json", jsonOutputFile}): a
\* descriptor of type json that has no jsonSources (yet) replaces the default
\* one; the status is made anew.
AddConfigJson ==
    /\ engine = "UpdateManager"
    /\ twType = "dynamic-json"
    /\ twType' = "json"
    /\ jsonSources' = [jsonSources EXCEPT !["tw"] = ""]
    /\ configs' = [configs EXCEPT !["characters-tw"] =
                       [enabled |-> TRUE, complete |-> TRUE, added |-> TRUE]]
    /\ status' = [status EXCEPT !["characters-tw"] = "disabled"]
    /\ info' = [info EXCEPT !["characters-tw"] = NoInfo]
    /\ obs' = [NoObs EXCEPT !.op = "addConfig", !.name = "characters-tw"]
    /\ UNCHANGED <<engine, qp, filterVars, mirrorVars, commitFile, jsonFile, umLastKnownUrls,
                   udCommitHashes, jmFile, preRestart, intervals, leaked, running, fua, stopped,
                   disabledByCall>>

\* performUpdate("characters-tw") with the descriptor of type json:
\* updateJsonData throws when the descriptor has no jsonSources, and the
\* catch of performUpdate keeps the message; otherwise the one source is
\* downloaded and the run succeeds when it did not fail.
UMJsonRun ==
    /\ engine = "UpdateManager"
    /\ twType = "json"
    /\ \E dl \in (IF jsonSources["tw"] = "" THEN {NoDownload} ELSE DownloadAnswers) :
       \E writeOk \in (IF dl.code = 200 /\ dl.body # "notJson" THEN BOOLEAN ELSE {FALSE}) :
       \E r \in {updateJsonData(jsonFile["tw"], dl, writeOk)} :
       \E outcome \in {IF jsonSources["tw"] = "" THEN "threw"
                       ELSE IF r.failCount = 0 THEN "success" ELSE "failure"} :
            /\ jsonFile' = IF outcome = "threw" THEN jsonFile
                            ELSE [jsonFile EXCEPT !["tw"] = r.file]
            /\ status' = [status EXCEPT !["characters-tw"] = StatusAfter(outcome)]
            /\ info' = [info EXCEPT !["characters-tw"] = EndUpdate(BeginUpdate(@), outcome)]
            /\ obs' = [NoObs EXCEPT !.op = "json",
                                    !.name = "characters-tw",
                                    !.succeeded = outcome = "success",
                                    !.fetched = {u \in {jsonSources["tw"]} : outcome # "threw"}]
            /\ UNCHANGED <<engine, qp, twType, filterVars, mirrorVars, commitFile, jsonSources,
                           umLastKnownUrls, udCommitHashes, jmFile, preRestart, lifeVars>>

\* The runs of the two tasks that resolve URLs from a watched file.
InitResolve ==
    /\ engine = "UpdateManager"
    /\ remote = [n \in Names |-> "none"]
    /\ local = [n \in Names |-> "none"]
    /\ udLastFileList = <<>>
    /\ udChecked = FALSE
    /\ status = [t \in Tasks |-> "disabled"]
    /\ obs = NoObs
    /\ CommitInit
    /\ LifeInit(Tasks)

NextResolve ==
    \/ UMDynamicJsonRunTraced
    \/ UMUrlMonitorRunTraced

SpecResolve == InitResolve /\ [][NextResolve]_vars

\* The runs of url-monitor and of a json descriptor registered as
\* characters-tw.
NextStatus ==
    \/ AddConfigJson
    \/ UMJsonRun
    \/ UMUrlMonitorRunTraced

SpecStatus == InitResolve /\ [][NextStatus]_vars

\* The runs of the url-monitor task, and addConfig replacing descriptors.
NextDescriptors ==
    \/ UMUrlMonitorRunTraced
    \/ AddConfig

SpecDescriptors == InitResolve /\ [][NextDescriptors]_vars

Init == InitMirror

Next == NextMirror \/ NextCommit \/ NextLifecycle \/ NextRegistry

Spec == Init /\ [][Next]_vars

\* ------------------------------------------------------------ claims: the directory mirror

MirrorRuns == {"um", "ud", "udForce"}

\* C1 (as claimed): the change check of a directory mirror answers "no
\* change" exactly when a snapshot exists and the listing holds the same set
\* of names as the snapshot, whatever the order of the listing.
C1_OrderIndependent ==
    obs.listed => (obs.changed <=> ~(obs.hadSnapshot /\ obs.sameSet))

C3_AdditiveOnly ==
    [][\A n \in Names :
          local[n] # "none" =>
              /\ local'[n] = local[n]
              /\ n \notin obs'.attempted
              /\ n \notin obs'.written]_vars

\* A run listed a file whose local copy holds other bytes and skipped it,
\* while a file that is gone from the remote is still there locally.
C3_Witness ==
    /\ obs.op \in MirrorRuns
    /\ \E n \in obs.skipped : local[n] = "old" /\ remote[n] = "file"
    /\ \E m \in Names : local[m] # "none" /\ remote[m] = "none"

\* C4 (as claimed): a mirror run one of whose listing requests is answered
\* 403 does not fail (the "github" task ends in "success"), and fetches
\* nothing when it is the listing of the download step.
C4_ThrottledRunSucceeds ==
    (obs.op \in MirrorRuns /\ obs.throttled # {}) =>
        /\ ~obs.failed
        /\ obs.op = "um" => status["sprite"] = "success"
        /\ "download" \in obs.throttled => obs.attempted = {}

\* C5 (as claimed): a change check whose listing request is answered 403
\* answers "no change" and leaves the stored snapshot as it was; stated for
\* the checks that have a snapshot to keep.
C5_ThrottledCheckNoChange ==
    ("check" \in obs.throttled /\ (obs.op = "um" \/ obs.hadSnapshot)) =>
        (~obs.changed /\ obs.snapshotKept)

\* ------------------------------------------------------------ claims about checkpoints

\* C6 (first half): with a commit hash persisted, a run whose lookup returns
\* that hash reports no change, downloads nothing and leaves the checkpoint.
C6_SameHashUnchanged ==
    (obs.op = "dj" /\ obs.lookupSame) =>
        (~obs.changed /\ obs.fetched = {} /\ obs.ckReplaced = {})

\* C6: with commit hash h persisted, a run whose lookup returns another hash
\* h' reports a change and, when it has ended in success, the persisted
\* checkpoint is h'.
C6_RoundTrip ==
    /\ C6_SameHashUnchanged
    /\ (obs.op = "dj" /\ obs.lookupDiffers) =>
           /\ obs.changed
           /\ obs.succeeded => (commitFile.state = "ok" /\ commitFile.commitHash = obs.lookedUp)

\* C7: whenever the commit lookup for a file on GitHub fails, the file is
\* reported changed and downloaded on that run.
C7_FailedLookupFailsOpen ==
    (obs.op \in {"dj", "udFetch"}) =>
        (obs.failedLookups \subseteq obs.reportedChanged /\ obs.failedLookups \subseteq obs.fetched)

\* C8: a checkpoint is replaced only by a run that fetched and stored the
\* content of the source.
C8_CheckpointAfterContent ==
    (obs.op \in {"dj", "udFetch"}) => obs.ckReplaced \subseteq obs.stored

\* C9: the first check after a restart decides and downloads as it would have
\* without the restart.
C9_RestartSameDecision ==
    (obs.op \in {"dj", "urlMonitor", "udFetch"} /\ obs.afterRestart) => obs.sameAsNoRestart

\* C10: reading a missing, unreadable or unparsable checkpoint file does not
\* throw, and the check that read it reports a change.
C10_DamagedReadsAbsent ==
    (obs.op \in {"dj", "jmRead"} /\ obs.ckAbsent) => (~obs.readThrew /\ obs.changed)

\* ------------------------------------------------------------ claims about start, stop and the timers

\* C11: when start() has returned, every enabled task has a timer and the
\* outcome of its first run (success or error) is recorded; a task that is
\* not enabled has neither a run nor a timer.
C11_FirstRunAwaited ==
    obs.op = "start" =>
        \A t \in DOMAIN configs :
            IF configs[t].enabled
            THEN t \in obs.armed /\ status[t] \in {"success", "error"}
            ELSE t \notin obs.began \cup obs.armed

\* C12: stop() leaves the status, lastCheck, lastUpdate and error of every
\* task and the persisted checkpoints (the commit file, the last known URLs,
\* the sources of the data files) as they were.
C12_StopKeepsCheckpoints ==
    [][obs'.op = "stop" =>
          /\ status' = status
          /\ \A t \in DOMAIN info :
                /\ info'[t].lastCheck = info[t].lastCheck
                /\ info'[t].lastUpdate = info[t].lastUpdate
                /\ info'[t].error = info[t].error
          /\ commitFile' = commitFile
          /\ umLastKnownUrls' = umLastKnownUrls
          /\ jsonSources' = jsonSources
          /\ jsonFile' = jsonFile]_vars

\* stop() has returned over a commit file a run wrote, a task in error with
\* its message, and a task whose timer projection it has cleared.
C12_Witness ==
    /\ obs.op = "stop"
    /\ commitFile # NoFile
    /\ \E t \in DOMAIN info : status[t] = "error" /\ info[t].error = "message"
    /\ \E t \in DOMAIN info :
          /\ info[t].lastUpdate = "date"
          /\ info[t].nextCheck = "null"
          /\ configs[t].enabled

\* C13: no run a timer drives begins between a stop() and the next start()
\* or setTaskEnabled(name, true).
C13_NoTickAfterStop ==
    ~(obs.op = "tick" /\ obs.whileStopped)

\* ------------------------------------------------------------ claims about forceUpdate and forceUpdateAll

\* C14: forceUpdate(name) leaves the timer handles, the timers that are
\* armed and every nextCheck and isRunning as they were; on an enabled task
\* it begins one run of that task and answers true; on a task that is not
\* registered or not enabled it answers false, begins no run and leaves every
\* status as it was.
C14_ForceUpdateKeepsTimers ==
    [][obs'.op = "force" =>
          /\ intervals' = intervals
          /\ leaked' = leaked
          /\ \A t \in DOMAIN info :
                /\ info'[t].nextCheck = info[t].nextCheck
                /\ info'[t].isRunning = info[t].isRunning
          /\ IF obs'.name \in DOMAIN configs /\ configs[obs'.name].enabled
             THEN /\ obs'.returned
                  /\ obs'.began = {obs'.name}
                  /\ running' = [running EXCEPT ![obs'.name] = @ + 1]
                  /\ status'[obs'.name] = "pending"
                  /\ \A t \in DOMAIN status \ {obs'.name} :
                        status'[t] = status[t] /\ info'[t] = info[t]
             ELSE /\ ~obs'.returned
                  /\ obs'.began = {}
                  /\ running' = running
                  /\ status' = status
                  /\ info' = info]_vars

\* forceUpdate has begun a run of a task whose timer is armed, beside a run
\* of it that is under way, while another task is not enabled.
C14_Witness ==
    /\ obs.op = "force"
    /\ obs.returned
    /\ obs.began = {obs.name}
    /\ intervals[obs.name]
    /\ info[obs.name].nextCheck = "date"
    /\ running[obs.name] = 2
    /\ \E t \in DOMAIN configs : ~configs[t].enabled

\* C15: forceUpdateAll() begins the run of every enabled task before any run
\* it began has completed.
C15_FanOut ==
    (obs.op \in {"fua", "fuaReturn"} /\ obs.began # {}) => obs.fuaDone = {}

\* C16: the map forceUpdateAll() returns holds one entry for each enabled
\* task, true when the run of the task succeeded and false when it failed.
C16_ResultsTellOutcome ==
    obs.op = "fuaReturn" =>
        /\ {x.name : x \in obs.results} = {t \in DOMAIN configs : configs[t].enabled}
        /\ \A x \in obs.results : x.value = (x.name \in obs.fuaSucceeded)

\* ------------------------------------------------------------ claims about setTaskEnabled and the status

\* C17: setTaskEnabled(name, true) on a task none of whose timers is armed
\* arms one timer and begins one run; on a task that has a timer armed it
\* arms none and begins none.
C17_EnableArmsOnce ==
    [][(obs'.op = "enable" /\ obs'.name \in DOMAIN configs) =>
          IF Timers(intervals, leaked, obs'.name) = 0
          THEN /\ Timers(intervals', leaked', obs'.name) = 1
               /\ running' = [running EXCEPT ![obs'.name] = @ + 1]
          ELSE /\ Timers(intervals', leaked', obs'.name) = Timers(intervals, leaked, obs'.name)
               /\ running' = running]_vars

\* C17, for a task all of whose armed timers intervals holds: the call arms
\* one timer and begins one run when intervals holds none, and neither when
\* it holds one. It holds.
C17_EnableArmsOnceWhenHeld ==
    [][(obs'.op = "enable" /\ obs'.name \in DOMAIN configs /\ leaked[obs'.name] = 0) =>
          IF ~intervals[obs'.name]
          THEN /\ Timers(intervals', leaked', obs'.name) = 1
               /\ running' = [running EXCEPT ![obs'.name] = @ + 1]
          ELSE /\ Timers(intervals', leaked', obs'.name) = 1
               /\ running' = running]_vars

\* C18: setTaskEnabled(name, false) leaves the task without a timer handle
\* and with nextCheck null, leaves its lastUpdate and lastCheck, the
\* checkpoints and the status and timers of every other task as they were;
\* and no run a timer drives begins for the task until it is enabled again.
C18_DisableCancels ==
    /\ [][(obs'.op = "disable" /\ obs'.name \in DOMAIN configs) =>
             /\ ~intervals'[obs'.name]
             /\ info'[obs'.name].nextCheck = "null"
             /\ info'[obs'.name].lastUpdate = info[obs'.name].lastUpdate
             /\ info'[obs'.name].lastCheck = info[obs'.name].lastCheck
             /\ commitFile' = commitFile
             /\ umLastKnownUrls' = umLastKnownUrls
             /\ jsonSources' = jsonSources
             /\ \A t \in DOMAIN configs \ {obs'.name} :
                   /\ status'[t] = status[t]
                   /\ info'[t] = info[t]
                   /\ intervals'[t] = intervals[t]
                   /\ leaked'[t] = leaked[t]]_vars
    /\ [](~(obs.op = "tick" /\ obs.afterDisable))

\* C18, what the call itself does (the first half of the claim). It holds.
C18_DisableFrame ==
    [][(obs'.op = "disable" /\ obs'.name \in DOMAIN configs) =>
          /\ ~intervals'[obs'.name]
          /\ info'[obs'.name].nextCheck = "null"
          /\ info'[obs'.name].lastUpdate = info[obs'.name].lastUpdate
          /\ info'[obs'.name].lastCheck = info[obs'.name].lastCheck
          /\ commitFile' = commitFile
          /\ umLastKnownUrls' = umLastKnownUrls
          /\ \A t \in DOMAIN configs \ {obs'.name} :
                status'[t] = status[t] /\ info'[t] = info[t] /\ intervals'[t] = intervals[t]]_vars

\* C19: the status of a task changes only from disabled to pending, from
\* pending to success or error, and from success or error to pending.
C19_StateMachine ==
    [][\A t \in DOMAIN status :
          status'[t] # status[t] =>
              <<status[t], status'[t]>> \in
                  {<<"disabled", "pending">>, <<"pending", "success">>,
                   <<"pending", "error">>, <<"success", "pending">>,
                   <<"error", "pending">>}]_vars

\* C20: a task that setTaskEnabled(name, false) disabled and that has not
\* been enabled since reports status "disabled" once no run of it is under
\* way.
C20_DisabledReported ==
    \A t \in disabledByCall :
        (running[t] = 0 /\ ~(fua.active /\ fua.current = t)) => status[t] = "disabled"

\* ------------------------------------------------------------ claims about the outcome of a run

\* C21: a run that fails leaves status "error" with the message of the
\* failure in status.error; a run that does not fail leaves status "success"
\* with lastUpdate stamped.
C21_ErrorKeepsMessage ==
    obs.op = "runEnd" =>
        IF obs.succeeded
        THEN status[obs.name] = "success" /\ info[obs.name].lastUpdate = "date"
        ELSE status[obs.name] = "error" /\ info[obs.name].error = "message"

\* C22: a timer starts no run of a task while a run of that task is in
\* flight.
C22_TimerDoesNotReenter ==
    obs.op = "tick" => running[obs.name] = 1

\* C23: with the fetch of one task never returning, a forceUpdateAll() call
\* still comes to deliver its results, having run every other enabled task.
C23_HungHoldsOnlyItself ==
    fua.active ~> (obs.op = "fuaReturn" /\ Responsive \subseteq obs.fuaDone)

\* C24: a run of the url-monitor task that fails leaves the descriptor, the
\* status, the checkpoint and the timer of every other task as they were.
C24_FailingRunLeavesOthers ==
    [][(obs'.op = "urlMonitor" /\ ~obs'.succeeded) =>
          /\ jsonSources' = jsonSources
          /\ commitFile' = commitFile
          /\ configs' = configs
          /\ intervals' = intervals
          /\ \A t \in DOMAIN status \ {"url-monitor"} :
                status'[t] = status[t] /\ info'[t] = info[t]]_vars

\* ------------------------------------------------------------ claims about resolving URLs from a watched file

\* C25: a run whose watched file is fetched and does not match the pattern
\* ends with status "error", fetches no data, and leaves the checkpoint, the
\* remembered URLs, the descriptors and the local files as they were.
C25_MismatchFails ==
    [][obs'.noMatch =>
          /\ status'[IF obs'.op = "dj" THEN "characters-tw" ELSE "url-monitor"] = "error"
          /\ ~obs'.succeeded
          /\ obs'.fetched = {}
          /\ commitFile' = commitFile
          /\ umLastKnownUrls' = umLastKnownUrls
          /\ jsonSources' = jsonSources
          /\ jsonFile' = jsonFile]_vars

\* A run of characters-tw met a mismatch with a checkpoint and a local file
\* there from an earlier run.
C25_Witness ==
    /\ obs.op = "dj"
    /\ obs.noMatch
    /\ commitFile.state = "ok"
    /\ jsonFile["tw"] = "pretty"
    /\ status["characters-tw"] = "error"

\* C26: a run of characters-tw that resolves a URL other than the one the
\* checkpoint records downloads from the resolved URL, whatever the commit
\* lookup answers, and when it succeeds the checkpoint records the resolved
\* URL.
C26_NewUrlDownloaded ==
    (obs.op = "dj" /\ obs.urlMoved) =>
        /\ obs.fetched = {obs.url}
        /\ obs.succeeded => commitFile.url = obs.url

\* ------------------------------------------------------------ claims about downloads

\* C27: a run of the directory mirror that attempted downloads reports
\* success exactly when no download failed.
C27_SuccessIffNoFailedDownload ==
    (obs.op \in {"um", "udForce"} /\ obs.attempted # {}) =>
        (~obs.failed <=> obs.attempted = obs.written)

\* C28: a run of characters-tw whose download answers a body that is not
\* JSON leaves that body, as it came, in the local file.
C28_MalformedKept ==
    (obs.op = "dj" /\ obs.body = "notJson") => jsonFile["tw"] = "notJson"

\* C30: a run of characters-tw that resolves a URL outside
\* raw.githubusercontent.com, with a checkpoint there, decides by the hash
\* of the URL string: with the checkpoint recorded for that URL it reports
\* no change, fetches nothing, leaves the files as they were and succeeds;
\* with a checkpoint whose hash differs from the hash of the URL it reports
\* a change and fetches from the URL.
C30_UrlHashDecides ==
    [][(obs'.op = "dj" /\ obs'.url \in WebUrls /\ commitFile.state = "ok") =>
          IF commitFile.url = obs'.url
          THEN /\ ~obs'.changed
               /\ obs'.fetched = {}
               /\ obs'.succeeded
               /\ jsonFile' = jsonFile
               /\ commitFile' = commitFile
          ELSE commitFile.commitHash # generateUrlHash(obs'.url) =>
                   obs'.changed /\ obs'.fetched = {obs'.url}]_vars

\* A run resolved the URL of the checkpoint, outside raw.githubusercontent.com,
\* and reported no change.
C30_Witness ==
    /\ obs.op = "dj"
    /\ obs.url \in WebUrls
    /\ commitFile.state = "ok"
    /\ commitFile.url = obs.url
    /\ commitFile.commitHash = generateUrlHash(obs.url)
    /\ ~obs.changed
    /\ obs.succeeded

\* C29: a file is written only if, at the moment of the write, it passes the
\* extension and exclude rules of the descriptor registered for its task.
C29_WrittenPassesFilters ==
    obs.op = "spriteFile" =>
        \A n \in obs.written : isValidFile(n) /\ ~shouldExcludeFileUnder(filterRules, n)

\* ------------------------------------------------------------ claims about convergence and checkpoints

\* C31: a run of the github task that follows a run of it, the remote
\* unchanged in between and every remote file that passes the filters present
\* locally, finds no change when its listing is answered.
C31_CheckConverges ==
    (obs.op = "um" /\ obs.repeated /\ obs.allPresent /\ obs.listed) => ~obs.changed

\* ------------------------------------------------------------ claims about work in flight

\* C32: a call of queueProcessor(items, fn, c) never has more than c
\* invocations of fn in flight, and a run of the github task fetches its
\* files one at a time (within the window of 5).
C32_BoundedInFlight ==
    /\ Cardinality(qp.running) <= qp.c
    /\ obs.op = "spriteFile" => Cardinality(obs.attempted) <= 1

\* The window of a call with more items than its concurrency is full again
\* after a settled item started the next one.
C32_Witness ==
    /\ qp.c = MaxConcurrency
    /\ qp.n > qp.c
    /\ Cardinality(qp.running) = qp.c
    /\ Len(qp.results) > 0

\* C39: when queueProcessor returns from a call with a concurrency of one
\* or more, fn has settled for every item and the array holds one entry per
\* item.
C39_ReturnsWhenAllSettled ==
    (obs.op = "qpReturn" /\ qp.c >= 1) =>
        /\ qp.running = {}
        /\ qp.queue = <<>>
        /\ qp.returned = qp.n

\* C33: a run of characters-tw that downloaded and wrote the checkpoint
\* wrote the commit hash its own change check was answered, never another.
C33_CheckpointIsCheckedHash ==
    (obs.op = "dj" /\ obs.ckReplaced # {} /\ obs.lookedUp # Null) =>
        commitFile.commitHash = obs.lookedUp

\* C34: a run of url-monitor replaces the remembered pair of URLs by another
\* pair only when the data of both new URLs was downloaded and stored.
C34_RememberedAfterDownload ==
    [][(obs'.op = "urlMonitor" /\ umLastKnownUrls # Null
            /\ umLastKnownUrls' # umLastKnownUrls) => obs'.failCount = 0]_vars

\* ------------------------------------------------------------ claims about who writes what

\* C35: the file characters-tw.json is written by runs of characters-tw
\* only, and no run of url-monitor rewrites the descriptor (jsonSources) of
\* another task.
C35_OneWriter ==
    [][/\ jsonFile'["tw"] # jsonFile["tw"] => obs'.op = "dj"
       /\ jsonSources' # jsonSources => obs'.op # "urlMonitor"]_vars

\* ------------------------------------------------------------ claims about the status record

\* C36: a task whose status is "success" reports no error message.
C36_SuccessHasNoError ==
    \A t \in DOMAIN status : status[t] = "success" => info[t].error = "none"

\* C37: the nextCheck of a task is non-null exactly when the registry holds
\* a timer for the task.
C37_NextCheckIffArmed ==
    \A t \in DOMAIN info : info[t].nextCheck # "null" <=> intervals[t]

\* --------------------------------------------------------- status queries

\* Scheduler.getStatus: getDownloadStats of the sprite downloader reads the
\* two listings, and the URL statistics come from a full
\* urlUpdater.fetchFromAllSources(), the call checkUrlUpdates makes.
SchedulerGetStatus ==
    /\ engine = "AutoUpdater"
    /\ \E look \in [{u \in Range(UdSources) : isGitHubRawUrl(u)} -> LookupAnswers] :
       \E fetchOk \in [Range(UdSources) -> BOOLEAN] :
       \E r \in {fetchFromAllSources(udCommitHashes, [look |-> look, fetchOk |-> fetchOk])} :
            /\ udCommitHashes' = r.hashes
            /\ preRestart' = NoRestart
            /\ obs' = [NoObs EXCEPT
                         !.op = "getStatus",
                         !.resolved = TRUE,
                         !.changed = r.changed # {},
                         !.ckReplaced = {u \in GithubRawUrls : r.hashes[u] # udCommitHashes[u]},
                         !.fetched = r.attempted]
            /\ UNCHANGED <<engine, qp, twType, filterVars, mirrorVars, status, commitFile, jsonFile, jsonSources,
                           umLastKnownUrls, jmFile, info, lifeVars>>

\* The scheduled URL checks of a Scheduler, and status queries between them.
NextQuery ==
    \/ UDFetchFromAllSources
    \/ JMReadExistingData
    \/ JMWriteNewData
    \/ SchedulerGetStatus
    \/ Restart

SpecQuery == InitCommit /\ [][NextQuery]_vars

\* C38: a status query leaves the next scheduled check fetching exactly the
\* sources it would have fetched without the query, whatever the lookups
\* then answer.
C38_StatusQueryReadsOnly ==
    [][obs'.op = "getStatus" =>
         \A look \in [{u \in Range(UdSources) : isGitHubRawUrl(u)} -> LookupAnswers] :
         \A fetchOk \in [Range(UdSources) -> BOOLEAN] :
            fetchFromAllSources(udCommitHashes', [look |-> look, fetchOk |-> fetchOk]).attempted
                = fetchFromAllSources(udCommitHashes, [look |-> look, fetchOk |-> fetchOk]).attempted]_vars

====
